---- MODULE Spec2Model ----
(***************************************************************************)
(* State-machine model of the IDS / IFC toolkit scripts:                   *)
(*   - the IFC property patch engine (IFC_fix_properties.py and its copy   *)
(*     inside ids_patch_panel.py) and the Patch Panel operators,           *)
(*   - the structural IDS parser (IDS_Parser_2.py / ids_match_panel.py),   *)
(*   - the Match Panel tree operators (ids_match_panel.py),                *)
(*   - the IFC2IDS analysis recipe (ifc2ids_recipe.py),                    *)
(*   - the Fetch Panel operators (ids_fetch_panel.py),                     *)
(*   - the command-line portal connector (BIMPortalConnector.py),         *)
(*   - register / unregister of the panels and the cleanup scripts         *)
(*     (ids_patch_removal_clean.py, ids_fetch_removal.py,                  *)
(*     complete_ids_removal.py).                                           *)
(* Python strings that the code takes apart (paths, JSON literals) are     *)
(* sequences of one-character strings; names that are only compared or     *)
(* concatenated are TLA+ strings.                                          *)
(***************************************************************************)
EXTENDS Integers, Sequences, FiniteSets, TLC

VARIABLES
    \* --- patch engine: one visit of handle_property_single_value
    property_single_value,   \* the IfcProperty being visited
    properties_values,       \* config[type]['properties_values'][pset]
    property_before,         \* the property as it was before the visit
    fix_pc,                  \* "call" before the visit, "done" after it
    fix_exc,                 \* "" or the exception the visit raised
    \* --- patch engine: one run of process_ifc_file
    ifc_property_sets,       \* the model's property sets, by entity id
    ifc_instances,           \* the model's instances and the sets defining them
    json_config,             \* the configuration, in item order
    engine_variant,          \* which copy of process_ifc_file runs
    engine_original,         \* the property sets as they were at the call
    engine_todo,             \* the visits still to make
    engine_renames,          \* per property set, assignments to its Name so far
    engine_writes,           \* per property, visits that assigned its wrappedValue so far
    engine_pc,               \* "run", then "done" or "raised"
    \* --- Patch Panel (ids_patch_panel.py): Scene attributes
    ids_patch_ifc_file_path,
    ids_patch_ifc_file_loaded,
    ids_patch_ids_file_path,
    ids_patch_ids_file_loaded,
    ids_patch_output_file,
    ids_patch_has_output,
    ids_patch_saved_file_path,
    ids_patch_file_saved,
    \* --- Patch Panel: environment and the last operator call
    patch_written,           \* <<>> or <<[src, dst]>>: last ifc_model.write
    patch_opened,            \* the files the last operator call opened for reading
    patch_last,              \* last operator call: op, result, report level, error
    \* --- IDS parser: one call of parse_ids
    ids_doc,                 \* the parsed XML document
    parse_pc,                \* "call" / "done"
    parse_result,            \* the Entity Requirement Map (ordered)
    parse_warnings,          \* entity keys warned about, in order
    \* --- Match Panel (ids_match_panel.py): Scene attributes
    simple_file1_loaded,
    simple_file1_path,
    simple_tree_nodes,
    simple_selected_index,
    simple_show_tree,
    simple_match_results,
    simple_has_match_results,
    simple_matched_entity,
    \* --- Match Panel: bookkeeping of the last call
    tree_owner,              \* per node, the entity key it was created under
    match_last,              \* last operator call: op, index, result, report
    \* --- IFC2IDS recipe (ifc2ids_recipe.py): Patcher fields
    element_stats,
    property_stats,
    include_geometry,
    ids_specifications,      \* ids_spec.specifications
    recipe_pc,               \* "analyze" / "done" / "saved" / "raised"
    output_path,
    specification_name,
    material_stats,
    classification_stats,
    \* --- IFC2IDS recipe: the invocation and what the run left behind
    recipe_arguments,        \* the positional arguments of the invocation
    recipe_call,             \* "none" / "execute" / "main"
    recipe_files,            \* files written: set of [path, content]
    analysis_summary,        \* the summary dict built by _create_summary_report
    \* --- IFC2IDS recipe: what the analysed model really contained
    seen_types,              \* type -> number of products of that type
    seen_psets,              \* pset -> number of products carrying it
    seen_props,              \* <<pset, prop>> -> number of products carrying it
    seen_pset_types,         \* the <<pset, type>> pairs with a product of the type carrying the set
    seen_associations,       \* materials / classifications -> number of products carrying one
    recipe_failed,           \* the analyses of the last element, or the writes, that raised
    \* --- Fetch Panel: Scene properties
    ids_fetch_server_connected,
    ids_fetch_models_count,
    ids_fetch_domain_models, \* the collection: sequence of [guid, name]
    ids_fetch_last_download, \* path, <<>> when empty
    ids_fetch_last_model_name,
    ids_fetch_last_model_guid,
    \* --- Fetch Panel: environment and the last operator call
    fetch_last,              \* last operator call: op, via, result, report level, message
    fetch_request,           \* outcome of the portal request of the last call, "" if none
    fetch_http,              \* the HTTP requests the last call sent, in order
    fetch_filepath,          \* the save location given to the last Download
    fetch_written,           \* the last IDS file written: path, model, content
    fetch_connected_once,    \* some Connect has finished
    \* --- Blender session: what the scripts have registered
    bpy_types,               \* names of the classes registered in bpy.types
    scene_props,             \* names of the properties defined on bpy.types.Scene
    \* --- IFCfromIDS panel (ifcfromids_collaboration_panel.py): Scene properties
    ifcfromids_ids_path,
    ifcfromids_output_path,
    ifcfromids_use_current,
    ifcfromids_spec_count,
    ifc_store_file,          \* bonsai's IfcStore.get_file() is a model
    template_files,          \* the paths ifc_file.write has written
    template_output_by_user, \* the output path is one the user typed
    template_last,           \* last call: op, result, document read, file written, materials
    ifc2ids_tool_loaded,     \* archive/ifc2ids_standalone_tool.py has been executed
    session_last,            \* last lifecycle call: op, exception, verification result
    session_again            \* the call before it was the same operation and returned

fixVars == <<property_single_value, properties_values, property_before, fix_pc, fix_exc>>
patchVars == <<ids_patch_ifc_file_path, ids_patch_ifc_file_loaded, ids_patch_ids_file_path,
               ids_patch_ids_file_loaded, ids_patch_output_file, ids_patch_has_output,
               ids_patch_saved_file_path, ids_patch_file_saved, patch_written,
               patch_opened, patch_last>>
parseVars == <<ids_doc, parse_pc, parse_result, parse_warnings>>
matchVars == <<simple_file1_loaded, simple_file1_path, simple_tree_nodes, simple_selected_index,
               simple_show_tree, simple_match_results, simple_has_match_results,
               simple_matched_entity, tree_owner, match_last>>
recipeVars == <<element_stats, property_stats, include_geometry, ids_specifications, recipe_pc,
                output_path, specification_name, material_stats, classification_stats,
                recipe_arguments, recipe_call, recipe_files, analysis_summary,
                seen_types, seen_psets, seen_props, seen_pset_types, seen_associations,
                recipe_failed>>
fetchVars == <<ids_fetch_server_connected, ids_fetch_models_count, ids_fetch_domain_models,
              ids_fetch_last_download, ids_fetch_last_model_name, ids_fetch_last_model_guid,
              fetch_last, fetch_request, fetch_http, fetch_filepath, fetch_written,
              fetch_connected_once>>
sessionVars == <<bpy_types, scene_props, ifc2ids_tool_loaded, session_last, session_again>>
engineVars == <<ifc_property_sets, ifc_instances, json_config, engine_variant, engine_original,
               engine_todo, engine_renames, engine_writes, engine_pc>>
templateVars == <<ifcfromids_ids_path, ifcfromids_output_path, ifcfromids_use_current, ifcfromids_spec_count, ifc_store_file, template_files, template_output_by_user, template_last>>
vars == <<fixVars, patchVars, parseVars, matchVars, recipeVars, fetchVars, sessionVars, engineVars, templateVars>>

(***************************************************************************)
(* Generic helpers                                                         *)
(***************************************************************************)
Range(s) == {s[i] : i \in 1..Len(s)}

SeqsUpTo(S, n) == UNION {[1..k -> S] : k \in 0..n}

Max(S) == CHOOSE m \in S : \A x \in S : x <= m

(***************************************************************************)
(* Python values held by an IFC literal, and type(v)(x) on a JSON string   *)
(***************************************************************************)
PyNone == [type |-> "NoneType", val |-> 0]
PyInt(n) == [type |-> "int", val |-> n]
PyStr(s) == [type |-> "str", val |-> s]
PyBool(b) == [type |-> "bool", val |-> b]

DigitValue(c) == CASE c = "0" -> 0 [] c = "1" -> 1 [] c = "2" -> 2 [] c = "3" -> 3
                   [] c = "4" -> 4 [] c = "5" -> 5 [] c = "6" -> 6 [] c = "7" -> 7
                   [] c = "8" -> 8 [] c = "9" -> 9 [] OTHER -> -1

RECURSIVE DecimalValue(_)
DecimalValue(s) == IF s = <<>> THEN 0
                   ELSE 10 * DecimalValue(SubSeq(s, 1, Len(s) - 1)) + DigitValue(s[Len(s)])

\* type(property_value)(x): int(x) parses decimal digits (leading zeros allowed)
\* and raises ValueError otherwise; str(x) is x; bool(x) is True for every
\* non-empty string.
Coerce(type, x) ==
    CASE type = "int" ->
            IF x # <<>> /\ \A i \in 1..Len(x) : DigitValue(x[i]) >= 0
            THEN [ok |-> TRUE, v |-> PyInt(DecimalValue(x))]
            ELSE [ok |-> FALSE, v |-> PyNone]
      [] type = "str" -> [ok |-> TRUE, v |-> PyStr(x)]
      [] type = "bool" -> [ok |-> TRUE, v |-> PyBool(x # <<>>)]
      [] OTHER -> [ok |-> FALSE, v |-> PyNone]

(***************************************************************************)
(* Patch engine: handle_property_single_value                              *)
(***************************************************************************)
\* JSON strings a replace_values map may use as keys and values.
CfgStrings == {<<>>, <<"2">>, <<"3">>, <<"0", "2">>, <<"x">>}
\* Literals an IfcPropertySingleValue may wrap (None: no NominalValue).
Literals == {PyNone, PyInt(2), PyInt(3), PyStr(<<"2">>), PyStr(<<"x">>), PyBool(TRUE), PyBool(FALSE)}
PropNames == {"LoadBearing", "IsExternal"}
MaxPairs == 2

\* JSON objects {old: new, ...}: insertion-ordered, keys distinct.
ReplaceMaps == {m \in SeqsUpTo(CfgStrings \X CfgStrings, MaxPairs) :
                   \A i, j \in 1..Len(m) : i # j => m[i][1] # m[j][1]}

\* One entry of properties_values: JSON null, or an object with optional
\* 'replace_name' and 'replace_values' (<<>> = key absent, <<x>> = present).
NullEntry == [null |-> TRUE, replace_name |-> <<>>, replace_values |-> <<>>]
Entries == {NullEntry} \cup
           {[null |-> FALSE, replace_name |-> rn, replace_values |-> rv] :
               rn \in {<<>>, <<"FireRating">>}, rv \in {<<>>} \cup {<<m>> : m \in ReplaceMaps}}

\* Faulty variant: the literal is read again on every iteration instead of
\* once before the loop.
RECURSIVE replace_values_loop_reread(_, _, _, _)
replace_values_loop_reread(property_value, current, pairs, i) ==
    IF i > Len(pairs) THEN [exc |-> "", value |-> current]
    ELSE LET old_value == Coerce(current.type, pairs[i][1])
         IN IF ~old_value.ok THEN [exc |-> "ValueError", value |-> current]
            ELSE IF current = old_value.v
                 THEN LET new_value == Coerce(current.type, pairs[i][2])
                      IN IF ~new_value.ok THEN [exc |-> "ValueError", value |-> current]
                         ELSE replace_values_loop_reread(property_value, new_value.v, pairs, i + 1)
                 ELSE replace_values_loop_reread(property_value, current, pairs, i + 1)

\* for old_value, new_value in replace_values.items(): property_value was read
\* once before the loop; current is the literal as written so far.
RECURSIVE replace_values_loop(_, _, _, _)
replace_values_loop(property_value, current, pairs, i) ==
    IF i > Len(pairs) THEN [exc |-> "", value |-> current]
    ELSE LET old_value == Coerce(property_value.type, pairs[i][1])
         IN IF ~old_value.ok THEN [exc |-> "ValueError", value |-> current]
            ELSE IF property_value = old_value.v
                 THEN LET new_value == Coerce(property_value.type, pairs[i][2])
                      IN IF ~new_value.ok THEN [exc |-> "ValueError", value |-> current]
                         ELSE replace_values_loop(property_value, new_value.v, pairs, i + 1)
                 ELSE replace_values_loop(property_value, current, pairs, i + 1)

\* Faulty variant: the replace_values map is looked up under the name the
\* property carries after the renaming.
handle_property_single_value_renamed_lookup(p, pv) ==
    LET renamed == IF p.Name \in DOMAIN pv /\ ~pv[p.Name].null
                      /\ pv[p.Name].replace_name # <<>>
                   THEN [p EXCEPT !.Name = pv[p.Name].replace_name[1]]
                   ELSE p
        property_name == renamed.Name
        configured == property_name \in DOMAIN pv
    IN IF p.kind = "IfcPropertySingleValue" /\ p.NominalValue # PyNone /\ configured
       THEN IF pv[property_name].null
            THEN [prop |-> renamed, exc |-> "AttributeError"]
            ELSE IF pv[property_name].replace_values # <<>>
                 THEN LET r == replace_values_loop(p.NominalValue, p.NominalValue,
                                                   pv[property_name].replace_values[1], 1)
                      IN [prop |-> [renamed EXCEPT !.NominalValue = r.value], exc |-> r.exc]
                 ELSE [prop |-> renamed, exc |-> ""]
       ELSE [prop |-> renamed, exc |-> ""]

\* handle_property_single_value(property_single_value, properties_values):
\* the property after the call and the exception raised ("" = returned).
handle_property_single_value(p, pv) ==
    LET property_name == p.Name
        configured == property_name \in DOMAIN pv
        renamed == IF configured /\ ~pv[property_name].null
                      /\ pv[property_name].replace_name # <<>>
                   THEN [p EXCEPT !.Name = pv[property_name].replace_name[1]]
                   ELSE p
    IN IF p.kind = "IfcPropertySingleValue" /\ p.NominalValue # PyNone /\ configured
       THEN IF pv[property_name].null
            THEN [prop |-> renamed, exc |-> "AttributeError"]
            ELSE IF pv[property_name].replace_values # <<>>
                 THEN LET r == replace_values_loop(p.NominalValue, p.NominalValue,
                                                   pv[property_name].replace_values[1], 1)
                      IN [prop |-> [renamed EXCEPT !.NominalValue = r.value], exc |-> r.exc]
                 ELSE [prop |-> renamed, exc |-> ""]
       ELSE [prop |-> renamed, exc |-> ""]

FixIdle ==
    /\ property_single_value = [Name |-> "LoadBearing", kind |-> "IfcPropertySingleValue",
                                NominalValue |-> PyNone]
    /\ properties_values = <<>>
    /\ property_before = property_single_value
    /\ fix_pc = "idle"
    /\ fix_exc = ""

\* A property of some property set and the configuration of that set.
InitFix ==
    /\ \E n \in PropNames, v \in Literals, k \in {"IfcPropertySingleValue", "IfcPropertyEnumeratedValue"} :
          /\ (k = "IfcPropertyEnumeratedValue" => v = PyNone)
          /\ property_single_value = [Name |-> n, kind |-> k, NominalValue |-> v]
    /\ \/ properties_values = <<>>
       \/ \E e \in Entries : properties_values = [n \in {"LoadBearing"} |-> e]
    /\ property_before = property_single_value
    /\ fix_pc = "call"
    /\ fix_exc = ""

HandleProperty ==
    /\ fix_pc = "call"
    /\ LET r == handle_property_single_value(property_single_value, properties_values)
       IN /\ property_single_value' = r.prop
          /\ fix_exc' = r.exc
    /\ fix_pc' = "done"
    /\ UNCHANGED <<properties_values, property_before>>

(***************************************************************************)
(* Patch engine: process_ifc_file's output path; Patch Panel operators     *)
(***************************************************************************)
\* str.replace(old, new): every non-overlapping occurrence, left to right.
RECURSIVE PyReplace(_, _, _)
PyReplace(s, old, new) ==
    IF Len(s) < Len(old) THEN s
    ELSE IF SubSeq(s, 1, Len(old)) = old
         THEN new \o PyReplace(SubSeq(s, Len(old) + 1, Len(s)), old, new)
         ELSE <<s[1]>> \o PyReplace(Tail(s), old, new)

DotIfc == <<".", "i", "f", "c">>
FixedIfc == <<"_", "f", "i", "x", "e", "d", ".", "i", "f", "c">>

\* output_file = ifc_file.replace('.ifc', '_fixed.ifc')
output_file_of(ifc_file) == PyReplace(ifc_file, DotIfc, FixedIfc)

\* File names the file browser can hand to Load IFC: built from these pieces.
PathSegments == {<<"m">>, DotIfc, <<".", "I", "F", "C">>}
MaxSegments == 2
RECURSIVE Concat(_)
Concat(ss) == IF ss = <<>> THEN <<>> ELSE Head(ss) \o Concat(Tail(ss))
IfcPaths == {Concat(ss) : ss \in SeqsUpTo(PathSegments, MaxSegments)} \ {<<>>}
ConfigPaths == {<<"c", ".", "j", "s", "o", "n">>}
SavePaths == {<<"s", ".", "i", "f", "c">>}

\* What can go wrong inside the try block of the Patch action, by stage.
\* (the configuration cannot be read, a coercion fails while patching, the
\* output cannot be written)
PatchErrors == {"JSONDecodeError", "ValueError", "OSError"}

OpCall(op, result, level, error) == [op |-> op, result |-> result, level |-> level, error |-> error]

PatchIdle ==
    /\ ids_patch_ifc_file_path = <<>>
    /\ ids_patch_ifc_file_loaded = FALSE
    /\ ids_patch_ids_file_path = <<>>
    /\ ids_patch_ids_file_loaded = FALSE
    /\ ids_patch_output_file = <<>>
    /\ ids_patch_has_output = FALSE
    /\ ids_patch_saved_file_path = <<>>
    /\ ids_patch_file_saved = FALSE
    /\ patch_written = <<>>
    /\ patch_opened = {}
    /\ patch_last = OpCall("register", "", "", "")

\* IDS_PATCH_OT_load_ifc_file.execute
load_ifc_file ==
    \E filepath \in IfcPaths \cup {<<>>} :
        IF filepath = <<>>
        THEN /\ patch_last' = OpCall("load_ifc_file", "CANCELLED", "ERROR", "")
             /\ patch_opened' = {}
             /\ UNCHANGED <<ids_patch_ifc_file_path, ids_patch_ifc_file_loaded,
                            ids_patch_ids_file_path, ids_patch_ids_file_loaded,
                            ids_patch_output_file, ids_patch_has_output,
                            ids_patch_saved_file_path, ids_patch_file_saved, patch_written>>
        ELSE /\ ids_patch_ifc_file_path' = filepath
             /\ ids_patch_ifc_file_loaded' = TRUE
             /\ patch_last' = OpCall("load_ifc_file", "FINISHED", "INFO", "")
             /\ patch_opened' = {}
             /\ UNCHANGED <<ids_patch_ids_file_path, ids_patch_ids_file_loaded,
                            ids_patch_output_file, ids_patch_has_output,
                            ids_patch_saved_file_path, ids_patch_file_saved, patch_written>>

\* IDS_PATCH_OT_load_ids_file.execute
load_ids_file ==
    \E filepath \in ConfigPaths \cup {<<>>} :
        IF filepath = <<>>
        THEN /\ patch_last' = OpCall("load_ids_file", "CANCELLED", "ERROR", "")
             /\ patch_opened' = {}
             /\ UNCHANGED <<ids_patch_ifc_file_path, ids_patch_ifc_file_loaded,
                            ids_patch_ids_file_path, ids_patch_ids_file_loaded,
                            ids_patch_output_file, ids_patch_has_output,
                            ids_patch_saved_file_path, ids_patch_file_saved, patch_written>>
        ELSE /\ ids_patch_ids_file_path' = filepath
             /\ ids_patch_ids_file_loaded' = TRUE
             /\ patch_last' = OpCall("load_ids_file", "FINISHED", "INFO", "")
             /\ patch_opened' = {}
             /\ UNCHANGED <<ids_patch_ifc_file_path, ids_patch_ifc_file_loaded,
                            ids_patch_output_file, ids_patch_has_output,
                            ids_patch_saved_file_path, ids_patch_file_saved, patch_written>>

\* The files the try block of the Patch action has opened when it ends with
\* `error`: the configuration first, the IFC model after it.
PatchOpened(error) ==
    IF error = "JSONDecodeError" THEN {ids_patch_ids_file_path}
    ELSE {ids_patch_ids_file_path, ids_patch_ifc_file_path}

\* Faulty variant: the output path is stored before the engine has run.
patch_ifc_store_first ==
    /\ ids_patch_ifc_file_loaded /\ ids_patch_ids_file_loaded
    /\ \E error \in PatchErrors \cup {""} :
          LET output_file == output_file_of(ids_patch_ifc_file_path)
          IN /\ ids_patch_output_file' = output_file
             /\ ids_patch_has_output' = TRUE
             /\ IF error = ""
                THEN /\ patch_written' = <<[src |-> ids_patch_ifc_file_path, dst |-> output_file]>>
                     /\ patch_last' = OpCall("patch_ifc", "FINISHED", "INFO", "")
                     /\ patch_opened' = {ids_patch_ids_file_path, ids_patch_ifc_file_path}
                ELSE /\ patch_last' = OpCall("patch_ifc", "CANCELLED", "ERROR", error)
                     /\ patch_opened' = PatchOpened(error)
                     /\ UNCHANGED patch_written
    /\ UNCHANGED <<ids_patch_ifc_file_path, ids_patch_ifc_file_loaded, ids_patch_ids_file_path,
                   ids_patch_ids_file_loaded, ids_patch_saved_file_path, ids_patch_file_saved>>

\* IDS_PATCH_OT_patch_ifc.execute past its two guards: the try block. Reading
\* the JSON, opening the model, patching it or writing it may raise; the
\* except clause reports "Patching failed: <error>" and returns CANCELLED.
patch_ifc_try ==
    /\ ids_patch_ifc_file_loaded /\ ids_patch_ids_file_loaded
    /\ \E error \in PatchErrors \cup {""} :
          IF error = ""
          THEN LET output_file == output_file_of(ids_patch_ifc_file_path)
               IN /\ patch_written' = <<[src |-> ids_patch_ifc_file_path, dst |-> output_file]>>
                  /\ ids_patch_output_file' = output_file
                  /\ ids_patch_has_output' = TRUE
                  /\ patch_last' = OpCall("patch_ifc", "FINISHED", "INFO", "")
                  /\ patch_opened' = {ids_patch_ids_file_path, ids_patch_ifc_file_path}
          ELSE /\ patch_last' = OpCall("patch_ifc", "CANCELLED", "ERROR", error)
               /\ patch_opened' = PatchOpened(error)
               /\ UNCHANGED <<patch_written, ids_patch_output_file, ids_patch_has_output>>
    /\ UNCHANGED <<ids_patch_ifc_file_path, ids_patch_ifc_file_loaded, ids_patch_ids_file_path,
                   ids_patch_ids_file_loaded, ids_patch_saved_file_path, ids_patch_file_saved>>

\* IDS_PATCH_OT_patch_ifc.execute: the two "loaded" guards.
patch_ifc_guard ==
    /\ ~(ids_patch_ifc_file_loaded /\ ids_patch_ids_file_loaded)
    /\ patch_last' = OpCall("patch_ifc", "CANCELLED", "ERROR", "")
    /\ patch_opened' = {}
    /\ UNCHANGED <<ids_patch_ifc_file_path, ids_patch_ifc_file_loaded, ids_patch_ids_file_path,
                   ids_patch_ids_file_loaded, ids_patch_output_file, ids_patch_has_output,
                   ids_patch_saved_file_path, ids_patch_file_saved, patch_written>>

\* IDS_PATCH_PT_panel.draw, the same test in the three panel scripts: the
\* Patch button is drawn
PatchOffered == ids_patch_ifc_file_loaded /\ ids_patch_ids_file_loaded

\* ids_patch_panel_main_button.py IDS_PATCH_OT_patch_ifc.execute: the two
\* guards, then a try block that only prints and reports
main_button_patch_ifc ==
    /\ IF ~ids_patch_ifc_file_loaded \/ ~ids_patch_ids_file_loaded
       THEN patch_last' = OpCall("main_button.patch_ifc", "CANCELLED", "ERROR", "")
       ELSE patch_last' = OpCall("main_button.patch_ifc", "FINISHED", "INFO", "")
    /\ patch_opened' = {}
    /\ UNCHANGED <<ids_patch_ifc_file_path, ids_patch_ifc_file_loaded, ids_patch_ids_file_path,
                   ids_patch_ids_file_loaded, ids_patch_output_file, ids_patch_has_output,
                   ids_patch_saved_file_path, ids_patch_file_saved, patch_written>>

\* Faulty variant: the try block is entered without the two guards.
main_button_active_patch_ifc_unguarded ==
    /\ \E error \in PatchErrors \cup {""} :
          IF error = ""
          THEN /\ patch_written' = <<[src |-> ids_patch_ifc_file_path,
                                      dst |-> output_file_of(ids_patch_ifc_file_path)]>>
               /\ patch_opened' = {ids_patch_ids_file_path, ids_patch_ifc_file_path}
               /\ patch_last' = OpCall("main_button_active.patch_ifc", "FINISHED", "INFO", "")
          ELSE /\ patch_opened' = PatchOpened(error)
               /\ patch_last' = OpCall("main_button_active.patch_ifc", "CANCELLED", "ERROR", error)
               /\ UNCHANGED patch_written
    /\ UNCHANGED <<ids_patch_ifc_file_path, ids_patch_ifc_file_loaded, ids_patch_ids_file_path,
                   ids_patch_ids_file_loaded, ids_patch_output_file, ids_patch_has_output,
                   ids_patch_saved_file_path, ids_patch_file_saved>>

\* ids_patch_panel_main_button_active.py IDS_PATCH_OT_patch_ifc.execute: the
\* two guards, then the try block, which runs the engine and reports its
\* output file without storing it
main_button_active_patch_ifc ==
    /\ IF ~ids_patch_ifc_file_loaded \/ ~ids_patch_ids_file_loaded
       THEN /\ patch_last' = OpCall("main_button_active.patch_ifc", "CANCELLED", "ERROR", "")
            /\ patch_opened' = {}
            /\ UNCHANGED patch_written
       ELSE \E error \in PatchErrors \cup {""} :
               IF error = ""
               THEN /\ patch_written' = <<[src |-> ids_patch_ifc_file_path,
                                           dst |-> output_file_of(ids_patch_ifc_file_path)]>>
                    /\ patch_opened' = {ids_patch_ids_file_path, ids_patch_ifc_file_path}
                    /\ patch_last' = OpCall("main_button_active.patch_ifc", "FINISHED", "INFO", "")
               ELSE /\ patch_opened' = PatchOpened(error)
                    /\ patch_last' = OpCall("main_button_active.patch_ifc", "CANCELLED",
                                            "ERROR", error)
                    /\ UNCHANGED patch_written
    /\ UNCHANGED <<ids_patch_ifc_file_path, ids_patch_ifc_file_loaded, ids_patch_ids_file_path,
                   ids_patch_ids_file_loaded, ids_patch_output_file, ids_patch_has_output,
                   ids_patch_saved_file_path, ids_patch_file_saved>>

\* IDS_PATCH_OT_save_fixed_ifc.execute: exists is Path(output_file).exists(),
\* copied is whether shutil.copy2 returned.
save_fixed_ifc ==
    \E filepath \in SavePaths, exists \in BOOLEAN, copied \in BOOLEAN :
        IF ids_patch_output_file = <<>> \/ ~exists
        THEN /\ patch_last' = OpCall("save_fixed_ifc", "CANCELLED", "ERROR", "")
             /\ patch_opened' = {}
             /\ UNCHANGED <<ids_patch_ifc_file_path, ids_patch_ifc_file_loaded,
                            ids_patch_ids_file_path, ids_patch_ids_file_loaded,
                            ids_patch_output_file, ids_patch_has_output,
                            ids_patch_saved_file_path, ids_patch_file_saved, patch_written>>
        ELSE IF copied
             THEN /\ ids_patch_saved_file_path' = filepath
                  /\ ids_patch_file_saved' = TRUE
                  /\ patch_last' = OpCall("save_fixed_ifc", "FINISHED", "INFO", "")
                  /\ patch_opened' = {ids_patch_output_file}
                  /\ UNCHANGED <<ids_patch_ifc_file_path, ids_patch_ifc_file_loaded,
                                 ids_patch_ids_file_path, ids_patch_ids_file_loaded,
                                 ids_patch_output_file, ids_patch_has_output, patch_written>>
             ELSE /\ patch_last' = OpCall("save_fixed_ifc", "CANCELLED", "ERROR", "OSError")
                  /\ patch_opened' = {ids_patch_output_file}
                  /\ UNCHANGED <<ids_patch_ifc_file_path, ids_patch_ifc_file_loaded,
                                 ids_patch_ids_file_path, ids_patch_ids_file_loaded,
                                 ids_patch_output_file, ids_patch_has_output,
                                 ids_patch_saved_file_path, ids_patch_file_saved, patch_written>>

(***************************************************************************)
(* Structural IDS parser: parse_ids                                        *)
(***************************************************************************)
\* An XML section that may be missing: <<>> when absent, <<children>> when present.
Absent == <<>>
Present(children) == <<children>>

Entity(name, predefined) == [name |-> name, predefined |-> predefined]
Property(propertySet, baseName) == [propertySet |-> propertySet, baseName |-> baseName]

\* findtext(..., default="") gives "" for a missing name, set or base name.
ApplicabilityChoices ==
    { Absent,
      Present(<<Entity("IFCWALL", "")>>),
      Present(<<Entity("IFCWALL", "SOLIDWALL")>>),
      Present(<<Entity("IFCDOOR", "")>>),
      Present(<<Entity("", "")>>),
      Present(<<Entity("IFCWALL", ""), Entity("IFCDOOR", "")>>),
      Present(<<Entity("IFCDOOR", ""), Entity("IFCDOOR", "")>>) }
RequirementsChoices ==
    { Absent,
      Present(<<>>),
      Present(<<Property("Pset_WallCommon", "LoadBearing")>>),
      Present(<<Property("Pset_WallCommon", "LoadBearing"), Property("Pset_WallCommon", "IsExternal")>>),
      Present(<<Property("Pset_DoorCommon", "FireRating"), Property("Pset_WallCommon", "LoadBearing")>>),
      Present(<<Property("", "LoadBearing"), Property("Pset_WallCommon", "")>>) }
MaxSpecs == 2

\* The name attribute of the i-th <specification> element.
SpecName(i) == "Spec" \o ToString(i)

\* An IDS document: with or without a <specifications> section.
IdsDocs ==
    {[has_specifications |-> FALSE, specifications |-> <<>>]} \cup
    {[has_specifications |-> TRUE,
      specifications |-> [i \in 1..Len(shape) |-> [name |-> SpecName(i),
                                                   applicability |-> shape[i][1],
                                                   requirements |-> shape[i][2]]]] :
        shape \in SeqsUpTo(ApplicabilityChoices \X RequirementsChoices, MaxSpecs)}

\* Faulty variant: the key is the entity name alone.
entity_key_name_only(entity) == entity.name

\* f"{name}.{predefined}" if predefined else name
entity_key(entity) ==
    IF entity.predefined # "" THEN entity.name \o "." \o entity.predefined ELSE entity.name

\* Position of the entry with this key in an insertion-ordered dict, 0 if none.
IndexOf(dict, field, key) ==
    IF \E i \in 1..Len(dict) : dict[i][field] = key
    THEN CHOOSE i \in 1..Len(dict) : dict[i][field] = key
    ELSE 0

\* Faulty variant: an empty base name gets a placeholder too.
add_property_keep_empty(properties, prop) ==
    IF prop.propertySet = "" THEN properties
    ELSE LET withSet == IF IndexOf(properties, "propertySet", prop.propertySet) = 0
                        THEN Append(properties, [propertySet |-> prop.propertySet, nodes |-> <<>>])
                        ELSE properties
             at == IndexOf(withSet, "propertySet", prop.propertySet)
         IN IF IndexOf(withSet[at].nodes, "baseName", prop.baseName) # 0
            THEN withSet
            ELSE [withSet EXCEPT ![at].nodes = Append(@, [baseName |-> prop.baseName, node |-> {}])]

\* Body of "for prop in requirements.findall(...)": the entry's properties
\* after one property requirement.
add_property(properties, prop) ==
    IF prop.propertySet = "" THEN properties
    ELSE LET withSet == IF IndexOf(properties, "propertySet", prop.propertySet) = 0
                        THEN Append(properties, [propertySet |-> prop.propertySet, nodes |-> <<>>])
                        ELSE properties
             at == IndexOf(withSet, "propertySet", prop.propertySet)
         IN IF prop.baseName = "" \/ IndexOf(withSet[at].nodes, "baseName", prop.baseName) # 0
            THEN withSet
            ELSE [withSet EXCEPT ![at].nodes = Append(@, [baseName |-> prop.baseName, node |-> {}])]

RECURSIVE add_properties(_, _)
add_properties(properties, props) ==
    IF props = <<>> THEN properties
    ELSE add_properties(add_property(properties, Head(props)), Tail(props))

\* Faulty variant: a later specification takes the entry over.
ensure_entry_last_wins(result, key, spec_name) ==
    IF IndexOf(result, "key", key) = 0
    THEN Append(result, [key |-> key, name |-> spec_name, properties |-> <<>>])
    ELSE [result EXCEPT ![IndexOf(result, "key", key)].name = spec_name]

\* "if entity_key not in result: result[entity_key] = {...}"
ensure_entry(result, key, spec_name) ==
    IF IndexOf(result, "key", key) = 0
    THEN Append(result, [key |-> key, name |-> spec_name, properties |-> <<>>])
    ELSE result

\* Faulty variant: a duplicate key is skipped together with its properties.
add_entity_skip_duplicate(st, spec_name, entity, props) ==
    LET key == entity_key(entity)
    IN IF IndexOf(st.result, "key", key) # 0
       THEN [result |-> st.result, warnings |-> Append(st.warnings, key)]
       ELSE LET ensured == ensure_entry(st.result, key, spec_name)
                at == IndexOf(ensured, "key", key)
            IN [result |-> [ensured EXCEPT ![at].properties = add_properties(@, props)],
                warnings |-> st.warnings]

\* Body of "for entity in applicability.findall(...)".
add_entity(st, spec_name, entity, props) ==
    LET key == entity_key(entity)
        ensured == ensure_entry(st.result, key, spec_name)
        at == IndexOf(ensured, "key", key)
    IN [result |-> [ensured EXCEPT ![at].properties = add_properties(@, props)],
        warnings |-> IF IndexOf(st.result, "key", key) # 0
                     THEN Append(st.warnings, key) ELSE st.warnings]

RECURSIVE add_entities(_, _, _, _)
add_entities(st, spec_name, entities, props) ==
    IF entities = <<>> THEN st
    ELSE add_entities(add_entity(st, spec_name, Head(entities), props), spec_name, Tail(entities), props)

\* Faulty variant: a specification without a requirements section is read as
\* one without requirements.
add_specification_without_requirements(st, spec) ==
    IF spec.applicability = Absent THEN st
    ELSE add_entities(st, spec.name, spec.applicability[1],
                      IF spec.requirements = Absent THEN <<>> ELSE spec.requirements[1])

\* Body of "for spec in specifications.findall(...)".
add_specification(st, spec) ==
    IF spec.applicability = Absent \/ spec.requirements = Absent THEN st
    ELSE add_entities(st, spec.name, spec.applicability[1], spec.requirements[1])

RECURSIVE add_specifications(_, _)
add_specifications(st, specs) ==
    IF specs = <<>> THEN st
    ELSE add_specifications(add_specification(st, Head(specs)), Tail(specs))

\* parse_ids: the Entity Requirement Map and the warnings printed.
parse_ids(doc) ==
    IF ~doc.has_specifications THEN [result |-> <<>>, warnings |-> <<>>]
    ELSE add_specifications([result |-> <<>>, warnings |-> <<>>], doc.specifications)

ParseIdle ==
    /\ ids_doc = [has_specifications |-> FALSE, specifications |-> <<>>]
    /\ parse_pc = "idle"
    /\ parse_result = <<>>
    /\ parse_warnings = <<>>

InitParse ==
    /\ ids_doc \in IdsDocs
    /\ parse_pc = "call"
    /\ parse_result = <<>>
    /\ parse_warnings = <<>>

ParseIds ==
    /\ parse_pc = "call"
    /\ LET r == parse_ids(ids_doc)
       IN /\ parse_result' = r.result
          /\ parse_warnings' = r.warnings
    /\ parse_pc' = "done"
    /\ UNCHANGED ids_doc

(***************************************************************************)
(* Match Panel: Load, Analyze, Toggle, Match                               *)
(***************************************************************************)
EndsWith(s, suffix) ==
    Len(s) >= Len(suffix) /\ SubSeq(s, Len(s) - Len(suffix) + 1, Len(s)) = suffix

JsonPath == <<"a", ".", "j", "s", "o", "n">>
IdsPath == <<"a", ".", "i", "d", "s">>
XmlPath == <<"a", ".", "x", "m", "l">>
TxtPath == <<"a", ".", "t", "x", "t">>
File1Paths == {JsonPath, IdsPath, XmlPath, TxtPath}

\* IDS documents a loaded File 1 may hold: no specification, or one of up to
\* two entities (one of them possibly without a name) with up to two
\* properties of one set.
MatchDocs ==
    {d \in IdsDocs :
        /\ Len(d.specifications) <= 1
        /\ \A i \in 1..Len(d.specifications) :
              /\ d.specifications[i].applicability \in
                    { Present(<<Entity("IFCWALL", "")>>),
                      Present(<<Entity("", "")>>),
                      Present(<<Entity("IFCWALL", ""), Entity("IFCDOOR", "")>>) }
              /\ d.specifications[i].requirements \in
                    { Present(<<>>),
                      Present(<<Property("Pset_WallCommon", "LoadBearing")>>),
                      Present(<<Property("Pset_WallCommon", "LoadBearing"),
                                Property("Pset_WallCommon", "IsExternal")>>) }}
\* What reading File 1 can give: a map, a JSON value that is no object, or an
\* exception raised while opening or parsing.
ReadErrors == {"ParseError", "FileNotFoundError", "Exception"}

TreeNode(name, node_type, level, has_children) ==
    [name |-> name, node_type |-> node_type, level |-> level, expanded |-> FALSE,
     has_children |-> has_children]

RECURSIVE property_nodes(_)
property_nodes(nodes) ==
    IF nodes = <<>> THEN <<>>
    ELSE <<TreeNode(Head(nodes).baseName, "Property", 2, FALSE)>> \o property_nodes(Tail(nodes))

RECURSIVE pset_nodes(_)
pset_nodes(properties) ==
    IF properties = <<>> THEN <<>>
    ELSE <<TreeNode(Head(properties).propertySet, "PropertySet", 1, Head(properties).nodes # <<>>)>>
         \o property_nodes(Head(properties).nodes) \o pset_nodes(Tail(properties))

\* Faulty variant: the Entity node never announces children.
entity_nodes_childless(entry) ==
    <<TreeNode(entry.key, "Entity", 0, FALSE)>> \o pset_nodes(entry.properties)

\* The nodes Analyze appends for one item of json_data.
entity_nodes(entry) ==
    <<TreeNode(entry.key, "Entity", 0, entry.properties # <<>>)>> \o pset_nodes(entry.properties)

RECURSIVE build_tree(_)
build_tree(json_data) ==
    IF json_data = <<>> THEN <<>>
    ELSE entity_nodes(Head(json_data)) \o build_tree(Tail(json_data))

\* Per node of build_tree(json_data), the key of the item it was created for.
RECURSIVE build_owner(_)
build_owner(json_data) ==
    IF json_data = <<>> THEN <<>>
    ELSE [i \in 1..Len(entity_nodes(Head(json_data))) |-> Head(json_data).key]
         \o build_owner(Tail(json_data))

MatchCall(op, result, level, message) ==
    [op |-> op, result |-> result, level |-> level, message |-> message]

MatchIdle ==
    /\ simple_file1_loaded = FALSE
    /\ simple_file1_path = <<>>
    /\ simple_tree_nodes = <<>>
    /\ simple_selected_index = -1
    /\ simple_show_tree = FALSE
    /\ simple_match_results = ""
    /\ simple_has_match_results = FALSE
    /\ simple_matched_entity = ""
    /\ tree_owner = <<>>
    /\ match_last = MatchCall("register", "", "", "")

\* SIMPLE_OT_load_file1.execute
load_file1 ==
    /\ \E filepath \in File1Paths \cup {<<>>} :
          IF filepath = <<>>
          THEN /\ match_last' = MatchCall("load_file1", "CANCELLED", "ERROR", "No file selected")
               /\ UNCHANGED <<simple_file1_loaded, simple_file1_path>>
          ELSE /\ simple_file1_loaded' = TRUE
               /\ simple_file1_path' = filepath
               /\ match_last' = MatchCall("load_file1", "FINISHED", "INFO", "Loaded")
    /\ UNCHANGED <<simple_tree_nodes, simple_selected_index, simple_show_tree,
                   simple_match_results, simple_has_match_results, simple_matched_entity,
                   tree_owner>>

\* SIMPLE_OT_load_file2.execute: bookkeeping of File 2 aside, it resets the
\* match results.
load_file2 ==
    /\ \E selected \in BOOLEAN :
          IF ~selected
          THEN /\ match_last' = MatchCall("load_file2", "CANCELLED", "ERROR", "No file selected")
               /\ UNCHANGED <<simple_match_results, simple_has_match_results>>
          ELSE /\ simple_match_results' = ""
               /\ simple_has_match_results' = FALSE
               /\ match_last' = MatchCall("load_file2", "FINISHED", "INFO", "Loaded")
    /\ UNCHANGED <<simple_file1_loaded, simple_file1_path, simple_tree_nodes,
                   simple_selected_index, simple_show_tree, simple_matched_entity, tree_owner>>

\* SIMPLE_OT_analyze_ids.execute
analyze_ids ==
    IF ~simple_file1_loaded
    THEN /\ match_last' = MatchCall("analyze_ids", "CANCELLED", "ERROR", "Please load an IDS file first")
         /\ UNCHANGED <<simple_file1_loaded, simple_file1_path, simple_tree_nodes,
                        simple_selected_index, simple_show_tree, simple_match_results,
                        simple_has_match_results, simple_matched_entity, tree_owner>>
    ELSE IF ~(EndsWith(simple_file1_path, <<".", "j", "s", "o", "n">>)
              \/ EndsWith(simple_file1_path, <<".", "i", "d", "s">>)
              \/ EndsWith(simple_file1_path, <<".", "x", "m", "l">>))
    THEN /\ match_last' = MatchCall("analyze_ids", "CANCELLED", "ERROR", "Unsupported file format")
         /\ UNCHANGED <<simple_file1_loaded, simple_file1_path, simple_tree_nodes,
                        simple_selected_index, simple_show_tree, simple_match_results,
                        simple_has_match_results, simple_matched_entity, tree_owner>>
    ELSE
      \/ \* open / json.load / parse_ids raises: nothing was touched yet
         \E e \in ReadErrors :
            /\ match_last' = MatchCall("analyze_ids", "CANCELLED", "ERROR", e)
            /\ UNCHANGED <<simple_file1_loaded, simple_file1_path, simple_tree_nodes,
                           simple_selected_index, simple_show_tree, simple_match_results,
                           simple_has_match_results, simple_matched_entity, tree_owner>>
      \/ \* a JSON file holding a value that is no object: the tree is cleared,
         \* then either "not json_data" or json_data.items() ends the call
         \E empty \in BOOLEAN :
            /\ EndsWith(simple_file1_path, <<".", "j", "s", "o", "n">>)
            /\ simple_tree_nodes' = <<>>
            /\ tree_owner' = <<>>
            /\ match_last' = IF empty
                             THEN MatchCall("analyze_ids", "CANCELLED", "WARNING", "No entities found in IDS file")
                             ELSE MatchCall("analyze_ids", "CANCELLED", "ERROR", "AttributeError")
            /\ UNCHANGED <<simple_file1_loaded, simple_file1_path, simple_selected_index,
                           simple_show_tree, simple_match_results, simple_has_match_results,
                           simple_matched_entity>>
      \/ \* a JSON file holding a map whose first item has a "properties" value
         \* that is true and no map: the Entity node is added with children
         \* announced, then entity_data["properties"].items() ends the call
         /\ EndsWith(simple_file1_path, <<".", "j", "s", "o", "n">>)
         /\ simple_tree_nodes' = <<TreeNode("IFCWALL", "Entity", 0, TRUE)>>
         /\ tree_owner' = <<"IFCWALL">>
         /\ match_last' = MatchCall("analyze_ids", "CANCELLED", "ERROR", "AttributeError")
         /\ UNCHANGED <<simple_file1_loaded, simple_file1_path, simple_selected_index,
                        simple_show_tree, simple_match_results, simple_has_match_results,
                        simple_matched_entity>>
      \/ \* the file holds a map (read from JSON, or parsed by parse_ids)
         \E doc \in MatchDocs :
            LET json_data == parse_ids(doc).result
            IN IF json_data = <<>>
               THEN /\ simple_tree_nodes' = <<>>
                    /\ tree_owner' = <<>>
                    /\ match_last' = MatchCall("analyze_ids", "CANCELLED", "WARNING", "No entities found in IDS file")
                    /\ UNCHANGED <<simple_file1_loaded, simple_file1_path, simple_selected_index,
                                   simple_show_tree, simple_match_results,
                                   simple_has_match_results, simple_matched_entity>>
               ELSE /\ simple_tree_nodes' = build_tree(json_data)
                    /\ tree_owner' = build_owner(json_data)
                    /\ simple_show_tree' = TRUE
                    /\ simple_selected_index' = -1
                    /\ match_last' = MatchCall("analyze_ids", "FINISHED", "INFO", "Parsed IDS")
                    /\ UNCHANGED <<simple_file1_loaded, simple_file1_path, simple_match_results,
                                   simple_has_match_results, simple_matched_entity>>

\* SIMPLE_OT_toggle_node.execute (node_index is a 0-based position)
toggle_node ==
    \E node_index \in -1..Len(simple_tree_nodes) :
        /\ IF 0 <= node_index /\ node_index < Len(simple_tree_nodes)
           THEN /\ simple_tree_nodes' =
                      IF simple_tree_nodes[node_index + 1].has_children
                      THEN [simple_tree_nodes EXCEPT ![node_index + 1].expanded = ~@]
                      ELSE simple_tree_nodes
                /\ simple_selected_index' = node_index
           ELSE UNCHANGED <<simple_tree_nodes, simple_selected_index>>
        /\ match_last' = MatchCall("toggle_node", "FINISHED", "", "")
        /\ UNCHANGED <<simple_file1_loaded, simple_file1_path, simple_show_tree,
                       simple_match_results, simple_has_match_results, simple_matched_entity,
                       tree_owner>>

NotFound == [found |-> FALSE, name |-> ""]

\* SIMPLE_OT_match_ids._find_parent_entity: the walk
\* "for i in range(selected_idx - 1, -1, -1)", entered at i.
RECURSIVE find_parent_entity(_, _)
find_parent_entity(nodes, i) ==
    IF i < 0 THEN NotFound
    ELSE IF nodes[i + 1].level = 0 /\ nodes[i + 1].node_type = "Entity"
         THEN [found |-> TRUE, name |-> nodes[i + 1].name]
         ELSE find_parent_entity(nodes, i - 1)

\* Faulty variant: a cancelled Match clears the result it was showing.
match_ids_clears_result ==
    /\ LET selected_idx == simple_selected_index
       IN IF selected_idx < 0 \/ selected_idx >= Len(simple_tree_nodes)
          THEN /\ match_last' = MatchCall("match_ids", "CANCELLED", "ERROR",
                                          "Please select an element from the tree first")
               /\ simple_match_results' = ""
               /\ simple_has_match_results' = FALSE
               /\ simple_matched_entity' = ""
          ELSE LET selected_node == simple_tree_nodes[selected_idx + 1]
                   parent == find_parent_entity(simple_tree_nodes, selected_idx - 1)
               IN IF selected_node.node_type = "Entity"
                  THEN /\ simple_match_results' = selected_node.name
                       /\ simple_has_match_results' = TRUE
                       /\ simple_matched_entity' = selected_node.name
                       /\ match_last' = MatchCall("match_ids", "FINISHED", "INFO", "Selected IFC class")
                  ELSE IF selected_node.node_type \in {"PropertySet", "Property"}
                  THEN \* "if parent_entity:" is false for None and for ""
                       IF parent.found /\ parent.name # ""
                       THEN /\ simple_match_results' = parent.name
                            /\ simple_has_match_results' = TRUE
                            /\ simple_matched_entity' = parent.name
                            /\ match_last' = MatchCall("match_ids", "FINISHED", "INFO",
                                                       "Selected element belongs to IFC class")
                       ELSE /\ match_last' = MatchCall("match_ids", "CANCELLED", "ERROR",
                                                       "Could not determine parent IFC class")
                            /\ simple_match_results' = ""
                            /\ simple_has_match_results' = FALSE
                            /\ simple_matched_entity' = ""
                  ELSE /\ match_last' = MatchCall("match_ids", "CANCELLED", "ERROR",
                                                  "Unknown element type selected")
                       /\ UNCHANGED <<simple_match_results, simple_has_match_results,
                                      simple_matched_entity>>
    /\ UNCHANGED <<simple_file1_loaded, simple_file1_path, simple_tree_nodes,
                   simple_selected_index, simple_show_tree, tree_owner>>

\* SIMPLE_OT_match_ids.execute
match_ids ==
    /\ LET selected_idx == simple_selected_index
       IN IF selected_idx < 0 \/ selected_idx >= Len(simple_tree_nodes)
          THEN /\ match_last' = MatchCall("match_ids", "CANCELLED", "ERROR",
                                          "Please select an element from the tree first")
               /\ UNCHANGED <<simple_match_results, simple_has_match_results, simple_matched_entity>>
          ELSE LET selected_node == simple_tree_nodes[selected_idx + 1]
                   parent == find_parent_entity(simple_tree_nodes, selected_idx - 1)
               IN IF selected_node.node_type = "Entity"
                  THEN /\ simple_match_results' = selected_node.name
                       /\ simple_has_match_results' = TRUE
                       /\ simple_matched_entity' = selected_node.name
                       /\ match_last' = MatchCall("match_ids", "FINISHED", "INFO", "Selected IFC class")
                  ELSE IF selected_node.node_type \in {"PropertySet", "Property"}
                  THEN \* "if parent_entity:" is false for None and for ""
                       IF parent.found /\ parent.name # ""
                       THEN /\ simple_match_results' = parent.name
                            /\ simple_has_match_results' = TRUE
                            /\ simple_matched_entity' = parent.name
                            /\ match_last' = MatchCall("match_ids", "FINISHED", "INFO",
                                                       "Selected element belongs to IFC class")
                       ELSE /\ match_last' = MatchCall("match_ids", "CANCELLED", "ERROR",
                                                       "Could not determine parent IFC class")
                            /\ UNCHANGED <<simple_match_results, simple_has_match_results,
                                           simple_matched_entity>>
                  ELSE /\ match_last' = MatchCall("match_ids", "CANCELLED", "ERROR",
                                                  "Unknown element type selected")
                       /\ UNCHANGED <<simple_match_results, simple_has_match_results,
                                      simple_matched_entity>>
    /\ UNCHANGED <<simple_file1_loaded, simple_file1_path, simple_tree_nodes,
                   simple_selected_index, simple_show_tree, tree_owner>>

\* Faulty variant: the loop draws every deeper node, not only the direct
\* children, before descending.
RECURSIVE draw_children_all_levels(_, _, _)
draw_children_all_levels(nodes, parent_index, i) ==
    IF i >= Len(nodes) THEN <<>>
    ELSE LET child_node == nodes[i + 1]
             parent_node == nodes[parent_index + 1]
         IN IF child_node.level <= parent_node.level THEN <<>>
            ELSE <<i>>
                 \o (IF child_node.expanded /\ child_node.has_children
                     THEN draw_children_all_levels(nodes, i, i + 1) ELSE <<>>)
                 \o draw_children_all_levels(nodes, parent_index, i + 1)

\* SIMPLE_PT_panel._draw_children: the loop
\* "for i in range(parent_index + 1, len(nodes))", entered at i; the result
\* lists the 0-based positions handed to _draw_single_node, in order.
RECURSIVE draw_children(_, _, _)
draw_children(nodes, parent_index, i) ==
    IF i >= Len(nodes) THEN <<>>
    ELSE LET child_node == nodes[i + 1]
             parent_node == nodes[parent_index + 1]
         IN IF child_node.level <= parent_node.level THEN <<>>
            ELSE IF child_node.level = parent_node.level + 1
            THEN <<i>>
                 \o (IF child_node.expanded /\ child_node.has_children
                     THEN draw_children(nodes, i, i + 1) ELSE <<>>)
                 \o draw_children(nodes, parent_index, i + 1)
            ELSE draw_children(nodes, parent_index, i + 1)

\* SIMPLE_PT_panel._draw_tree_nodes: the loop over enumerate(nodes), entered
\* at i.
RECURSIVE draw_tree_nodes(_, _)
draw_tree_nodes(nodes, i) ==
    IF i >= Len(nodes) THEN <<>>
    ELSE (IF nodes[i + 1].level = 0
          THEN <<i>> \o (IF nodes[i + 1].expanded /\ nodes[i + 1].has_children
                         THEN draw_children(nodes, i, i + 1) ELSE <<>>)
          ELSE <<>>)
         \o draw_tree_nodes(nodes, i + 1)

\* SIMPLE_PT_panel.draw, Tree Display Section: the tree is drawn
TreeDrawn == simple_show_tree /\ Len(simple_tree_nodes) > 0

(***************************************************************************)
(* IFC2IDS recipe: Patcher._analyze_model and _create_ids_specification    *)
(***************************************************************************)
\* element.is_a() of the products in the analysed model.
ElementTypes == {"IfcWall", "IfcDoor"}
PsetNames == {"Pset_WallCommon", "Pset_Custom", "Pset_A", "Pset_B", "Pset_C", "Pset_D"}
RecipePropNames == {"LoadBearing", "IsExternal", "FireRating", "Reference"}

\* What get_psets(element) can return: property sets in dict order, each with
\* its property names in dict order.
ElementPsets ==
    LET common == {[name |-> "Pset_WallCommon", props |-> ps] :
                      ps \in {<<>>, <<"LoadBearing">>, <<"IsExternal">>, <<"LoadBearing", "IsExternal">>}}
        custom == [name |-> "Pset_Custom", props |-> <<"LoadBearing">>]
    IN {<<>>, <<custom>>} \cup {<<c>> : c \in common} \cup {<<c, custom>> : c \in common}

MaxProducts == 5

MinTypeCount == 2
MinPsetCount == 3
MinPropCount == 2
TopPsets == 5
TopProps == 3

Take(s, n) == SubSeq(s, 1, IF Len(s) < n THEN Len(s) ELSE n)

\* sorted(items, key=count, reverse=True): descending by count, items of equal
\* count keeping their dict order.
RECURSIVE sorted_by_count(_)
sorted_by_count(items) ==
    IF items = <<>> THEN <<>>
    ELSE LET first == CHOOSE i \in 1..Len(items) :
                         /\ \A j \in 1..Len(items) : items[j].count <= items[i].count
                         /\ \A j \in 1..(i - 1) : items[j].count < items[i].count
             rest == [k \in 1..(Len(items) - 1) |-> IF k < first THEN items[k] ELSE items[k + 1]]
         IN <<items[first]>> \o sorted_by_count(rest)

\* "for prop_name, prop_value in properties.items()": count one more use of
\* each property of the set.
RECURSIVE track_properties(_, _)
track_properties(properties, props) ==
    IF props = <<>> THEN properties
    ELSE LET at == IndexOf(properties, "name", Head(props))
             known == IF at = 0 THEN Append(properties, [name |-> Head(props), count |-> 0])
                      ELSE properties
             pos == IndexOf(known, "name", Head(props))
         IN track_properties([known EXCEPT ![pos].count = @ + 1], Tail(props))

\* "for pset_name, properties in psets.items()": property_stats after the
\* property sets of one element of type element_type.
RECURSIVE track_psets(_, _, _)
track_psets(stats, element_type, psets) ==
    IF psets = <<>> THEN stats
    ELSE LET pset == Head(psets)
             known == IF IndexOf(stats, "name", pset.name) = 0
                      THEN Append(stats, [name |-> pset.name, elements |-> {}, properties |-> <<>>,
                                          count |-> 0])
                      ELSE stats
             pos == IndexOf(known, "name", pset.name)
         IN track_psets([known EXCEPT ![pos].elements = @ \cup {element_type},
                                      ![pos].count = @ + 1,
                                      ![pos].properties = track_properties(@, pset.props)],
                        element_type, Tail(psets))

\* element_stats after counting one element: the entry is created on first
\* sight, its count incremented, and the names of its property sets added.
count_element(stats, element_type, pset_names) ==
    LET known == IF IndexOf(stats, "type", element_type) = 0
                 THEN Append(stats, [type |-> element_type, count |-> 0, properties |-> {}])
                 ELSE stats
        pos == IndexOf(known, "type", element_type)
    IN [known EXCEPT ![pos].count = @ + 1, ![pos].properties = @ \cup pset_names]

\* self.property_stats.get(x, {}).get('count', 0)
pset_count(stats, x) ==
    IF IndexOf(stats, "name", x) = 0 THEN 0 ELSE stats[IndexOf(stats, "name", x)].count

Bump(f, x) == [f EXCEPT ![x] = @ + 1]

\* get_materials(element) and the classifications element.HasAssociations
\* relates the element to, by Name ("": a material without a name).
ElementMaterials == {<<>>, <<"Concrete">>, <<"">>}
ElementClassifications == {<<>>, <<"Uniclass">>}
\* get_psets(element) of the products of a model analysed with its
\* associations.
AssociatedPsets == {<<>>, <<[name |-> "Pset_WallCommon", props |-> <<"LoadBearing">>]>>}
MaxAssociated == 3

\* get_psets(element) of the products of a model with more property sets
\* than are promoted and more properties in a set than become requirements.
SixPsets(common_props, d_props) ==
    <<[name |-> "Pset_WallCommon", props |-> common_props],
      [name |-> "Pset_Custom", props |-> <<"LoadBearing">>],
      [name |-> "Pset_A", props |-> <<"LoadBearing">>],
      [name |-> "Pset_B", props |-> <<"LoadBearing">>],
      [name |-> "Pset_C", props |-> <<"LoadBearing">>],
      [name |-> "Pset_D", props |-> d_props]>>
WidePsets ==
    {<<>>,
     SixPsets(<<"LoadBearing", "IsExternal", "FireRating", "Reference">>, <<>>),
     SixPsets(<<"LoadBearing", "IsExternal", "FireRating", "Reference">>, <<"LoadBearing">>),
     <<[name |-> "Pset_D", props |-> <<"LoadBearing">>]>>,
     <<[name |-> "Pset_WallCommon", props |-> <<"LoadBearing", "IsExternal", "FireRating">>]>>,
     <<[name |-> "Pset_WallCommon", props |-> <<"Reference">>],
       [name |-> "Pset_A", props |-> <<"LoadBearing">>]>>}
MaxWide == 4

\* "for material in materials" and "for association in
\* element.HasAssociations": one more use of each named material or
\* classification by an element of type element_type.  (material_stats also
\* keeps material.is_a(), which nothing reads.)
RECURSIVE track_associations(_, _, _)
track_associations(stats, element_type, names) ==
    IF names = <<>> THEN stats
    ELSE IF Head(names) = "" THEN track_associations(stats, element_type, Tail(names))
    ELSE LET known == IF IndexOf(stats, "name", Head(names)) = 0
                      THEN Append(stats, [name |-> Head(names), elements |-> {}, count |-> 0])
                      ELSE stats
             pos == IndexOf(known, "name", Head(names))
         IN track_associations([known EXCEPT ![pos].elements = @ \cup {element_type},
                                             ![pos].count = @ + 1],
                               element_type, Tail(names))

Analyses == {"properties", "materials", "classifications"}

\* Faulty variant: the first analysis that raises ends the element's analysis.
analyses_completed_until_failure(failed) ==
    IF "properties" \in failed THEN {}
    ELSE IF "materials" \in failed THEN {"properties"}
    ELSE Analyses \ failed

\* Lines 108-115 with the try/except of each _analyze_element_* method: the
\* analyses of one element that take effect when those in failed raise.
analyses_completed(failed) == Analyses \ failed

DefaultOutputPath == <<"output", ".ids">>
\* Strings that travel as arguments are held as sequences of pieces.
DefaultSpecificationName == <<"Generated from IFC">>

RecipeIdle ==
    /\ element_stats = <<>>
    /\ property_stats = <<>>
    /\ include_geometry = FALSE
    /\ ids_specifications = <<>>
    /\ recipe_pc = "idle"
    /\ output_path = DefaultOutputPath
    /\ specification_name = DefaultSpecificationName
    /\ material_stats = <<>>
    /\ classification_stats = <<>>
    /\ recipe_arguments = <<>>
    /\ recipe_call = "none"
    /\ recipe_files = {}
    /\ analysis_summary = <<>>
    /\ seen_types = [t \in ElementTypes |-> 0]
    /\ seen_psets = [p \in PsetNames |-> 0]
    /\ seen_props = [pp \in PsetNames \X RecipePropNames |-> 0]
    /\ seen_pset_types = {}
    /\ seen_associations = [a \in {"materials", "classifications"} |-> 0]
    /\ recipe_failed = {}

\* Patcher.__init__ with the default output path and specification name.
InitRecipe ==
    /\ element_stats = <<>>
    /\ property_stats = <<>>
    /\ include_geometry \in BOOLEAN
    /\ ids_specifications = <<>>
    /\ recipe_pc = "analyze"
    /\ output_path = DefaultOutputPath
    /\ specification_name = DefaultSpecificationName
    /\ material_stats = <<>>
    /\ classification_stats = <<>>
    /\ recipe_arguments = <<>>
    /\ recipe_call = "none"
    /\ recipe_files = {}
    /\ analysis_summary = <<>>
    /\ seen_types = [t \in ElementTypes |-> 0]
    /\ seen_psets = [p \in PsetNames |-> 0]
    /\ seen_props = [pp \in PsetNames \X RecipePropNames |-> 0]
    /\ seen_pset_types = {}
    /\ seen_associations = [a \in {"materials", "classifications"} |-> 0]
    /\ recipe_failed = {}

\* File names a run may be asked to write to.
OutputPaths == {DefaultOutputPath, <<"model", ".v2", ".ids">>, <<"requirements">>}

\* Patcher.__init__ with any output path and the default geometry flag.
InitRecipeRun ==
    /\ element_stats = <<>>
    /\ property_stats = <<>>
    /\ include_geometry = FALSE
    /\ ids_specifications = <<>>
    /\ recipe_pc = "analyze"
    /\ output_path \in OutputPaths
    /\ specification_name = DefaultSpecificationName
    /\ material_stats = <<>>
    /\ classification_stats = <<>>
    /\ recipe_arguments = <<>>
    /\ recipe_call = "none"
    /\ recipe_files = {}
    /\ analysis_summary = <<>>
    /\ seen_types = [t \in ElementTypes |-> 0]
    /\ seen_psets = [p \in PsetNames |-> 0]
    /\ seen_props = [pp \in PsetNames \X RecipePropNames |-> 0]
    /\ seen_pset_types = {}
    /\ seen_associations = [a \in {"materials", "classifications"} |-> 0]
    /\ recipe_failed = {}

\* One iteration of "for element in self.file.by_type('IfcProduct')" for an
\* element whose property sets, materials and classifications are drawn from
\* Psets, Materials and Classifications; failed are the analyses in which a
\* library call raises, caught inside the _analyze_element_* method.
analyze_model_element(Psets, Materials, Classifications, Failures, bound) ==
    /\ recipe_pc = "analyze"
    /\ seen_types["IfcWall"] + seen_types["IfcDoor"] < bound
    /\ \E element_type \in ElementTypes, psets \in Psets, materials \in Materials,
          classifications \in Classifications, failed \in Failures :
          LET names == {psets[i].name : i \in 1..Len(psets)}
              carried == UNION {{<<psets[i].name, psets[i].props[j]>> :
                                    j \in 1..Len(psets[i].props)} : i \in 1..Len(psets)}
              psets_raise == "properties" \in failed
              completed == analyses_completed(failed)
          IN /\ element_stats' = count_element(element_stats, element_type,
                                               IF "properties" \in completed THEN names ELSE {})
             /\ property_stats' = IF "properties" \in completed
                                  THEN track_psets(property_stats, element_type, psets)
                                  ELSE property_stats
             /\ material_stats' = IF "materials" \in completed
                                  THEN track_associations(material_stats, element_type, materials)
                                  ELSE material_stats
             /\ classification_stats' =
                   IF "classifications" \in completed
                   THEN track_associations(classification_stats, element_type, classifications)
                   ELSE classification_stats
             /\ seen_types' = Bump(seen_types, element_type)
             /\ seen_psets' = [p \in PsetNames |->
                                  seen_psets[p] + IF ~psets_raise /\ p \in names THEN 1 ELSE 0]
             /\ seen_props' = [pp \in PsetNames \X RecipePropNames |->
                                  seen_props[pp] +
                                  IF ~psets_raise /\ pp \in carried THEN 1 ELSE 0]
             /\ seen_pset_types' = seen_pset_types \cup
                                       IF psets_raise THEN {} ELSE {<<p, element_type>> : p \in names}
             /\ seen_associations' =
                   [seen_associations EXCEPT
                       !["materials"] = @ + IF "materials" \notin failed
                                               /\ \E i \in 1..Len(materials) : materials[i] # ""
                                            THEN 1 ELSE 0,
                       !["classifications"] = @ + IF "classifications" \notin failed
                                                     /\ classifications # <<>>
                                                  THEN 1 ELSE 0]
             /\ recipe_failed' = failed
    /\ UNCHANGED <<include_geometry, ids_specifications, recipe_pc, output_path,
                   specification_name, recipe_arguments, recipe_call, recipe_files,
                   analysis_summary>>

\* The loop body for the products of a model without materials and
\* classifications, no analysis raising (get_psets raising leaves the same
\* statistics as an element without property sets).
analyze_element ==
    analyze_model_element(ElementPsets, {<<>>}, {<<>>}, {{}}, MaxProducts)

\* The loop body for the products of a model whose elements carry up to six
\* property sets.
analyze_wide_element ==
    analyze_model_element(WidePsets, {<<>>}, {<<>>}, {{}}, MaxWide)

\* The loop body for the products of a model with materials and
\* classifications, any of the three analyses raising.
analyze_associated_element ==
    analyze_model_element(AssociatedPsets, ElementMaterials, ElementClassifications,
                          SUBSET Analyses, MaxAssociated)

StructuralTypes == {"IFCWALL", "IFCSLAB", "IFCBEAM", "IFCCOLUMN"}

Requirement(facet, name, propertySet, cardinality) ==
    [facet |-> facet, name |-> name, propertySet |-> propertySet, cardinality |-> cardinality]

\* The specification built for one entry of element_stats; common_pset is
\* the result of max(stats['properties'], key=count).
element_specification(stats, geometry, common_pset) ==
    [name |-> stats.type \o " Requirements",
     applicability |-> {stats.type},
     requirements |->
        (IF geometry /\ stats.type \in StructuralTypes
         THEN <<Requirement("Attribute", "Representation", "", "required")>> ELSE <<>>)
        \o (IF stats.properties # {}
            THEN <<Requirement("Property", "*", common_pset, "optional")>> ELSE <<>>)]

\* Faulty variant: every observed type gets a specification.
RECURSIVE create_element_specifications_all(_, _, _)
create_element_specifications_all(stats, geometry, common) ==
    IF stats = <<>> THEN <<>>
    ELSE <<element_specification(Head(stats), geometry, common[Head(stats).type])>>
         \o create_element_specifications_all(Tail(stats), geometry, common)

\* Patcher._create_element_specifications
RECURSIVE create_element_specifications(_, _, _)
create_element_specifications(stats, geometry, common) ==
    IF stats = <<>> THEN <<>>
    ELSE (IF Head(stats).count < MinTypeCount THEN <<>>
          ELSE <<element_specification(Head(stats), geometry, common[Head(stats).type])>>)
         \o create_element_specifications(Tail(stats), geometry, common)

\* Faulty variant: a property used by exactly half of the set's uses is optional.
RECURSIVE property_requirements_above_half(_, _)
property_requirements_above_half(pset_info, critical_props) ==
    IF critical_props = <<>> THEN <<>>
    ELSE (IF Head(critical_props).count >= MinPropCount
          THEN <<Requirement("Property", Head(critical_props).name, pset_info.name,
                             IF 2 * Head(critical_props).count <= pset_info.count
                             THEN "optional" ELSE "required")>>
          ELSE <<>>)
         \o property_requirements_above_half(pset_info, Tail(critical_props))

\* The property requirements for the critical properties of one set.
RECURSIVE property_requirements(_, _)
property_requirements(pset_info, critical_props) ==
    IF critical_props = <<>> THEN <<>>
    ELSE (IF Head(critical_props).count >= MinPropCount
          THEN <<Requirement("Property", Head(critical_props).name, pset_info.name,
                             IF 2 * Head(critical_props).count < pset_info.count
                             THEN "optional" ELSE "required")>>
          ELSE <<>>)
         \o property_requirements(pset_info, Tail(critical_props))

\* Faulty variant: every property of the set may become a requirement.
property_specification_uncapped(pset_info) ==
    IF pset_info.count < MinPsetCount THEN <<>>
    ELSE LET requirements == property_requirements(
                                 pset_info, sorted_by_count(pset_info.properties))
         IN IF requirements = <<>> THEN <<>>
            ELSE <<[name |-> pset_info.name \o " Properties",
                    applicability |-> pset_info.elements,
                    requirements |-> requirements]>>

\* Body of "for pset_name, pset_info in common_psets".
property_specification(pset_info) ==
    IF pset_info.count < MinPsetCount THEN <<>>
    ELSE LET requirements == property_requirements(
                                 pset_info, Take(sorted_by_count(pset_info.properties), TopProps))
         IN IF requirements = <<>> THEN <<>>
            ELSE <<[name |-> pset_info.name \o " Properties",
                    applicability |-> pset_info.elements,
                    requirements |-> requirements]>>

\* Patcher._create_property_specifications
RECURSIVE create_property_specifications(_)
create_property_specifications(common_psets) ==
    IF common_psets = <<>> THEN <<>>
    ELSE property_specification(Head(common_psets))
         \o create_property_specifications(Tail(common_psets))

\* Faulty variant: the property-set specifications come first.
create_ids_specification_properties_first ==
    /\ recipe_pc = "analyze"
    /\ \E common \in [ElementTypes -> PsetNames] :
          /\ \A i \in 1..Len(element_stats) :
                LET e == element_stats[i]
                IN e.properties # {} =>
                      /\ common[e.type] \in e.properties
                      /\ \A y \in e.properties :
                            pset_count(property_stats, y) <= pset_count(property_stats, common[e.type])
          /\ \A t \in ElementTypes :
                (\A i \in 1..Len(element_stats) :
                    element_stats[i].type = t => element_stats[i].properties = {})
                => common[t] = "Pset_WallCommon"
          /\ ids_specifications' =
                create_property_specifications(Take(sorted_by_count(property_stats), TopPsets))
                \o create_element_specifications(element_stats, include_geometry, common)
    /\ recipe_pc' = "done"
    /\ recipe_failed' = {}
    /\ UNCHANGED <<element_stats, property_stats, include_geometry, seen_types, seen_psets,
                   seen_props, seen_pset_types, output_path, specification_name, material_stats,
                   classification_stats, recipe_arguments, recipe_call, recipe_files,
                   analysis_summary, seen_associations>>

\* Patcher._create_ids_specification: max() over the set of property-set
\* names takes any of the names with the highest count.
create_ids_specification ==
    /\ recipe_pc = "analyze"
    /\ \E common \in [ElementTypes -> PsetNames] :
          /\ \A i \in 1..Len(element_stats) :
                LET e == element_stats[i]
                IN e.properties # {} =>
                      /\ common[e.type] \in e.properties
                      /\ \A y \in e.properties :
                            pset_count(property_stats, y) <= pset_count(property_stats, common[e.type])
          /\ \A t \in ElementTypes :
                (\A i \in 1..Len(element_stats) :
                    element_stats[i].type = t => element_stats[i].properties = {})
                => common[t] = "Pset_WallCommon"
          /\ ids_specifications' =
                create_element_specifications(element_stats, include_geometry, common)
                \o create_property_specifications(Take(sorted_by_count(property_stats), TopPsets))
    /\ recipe_pc' = "done"
    /\ recipe_failed' = {}
    /\ UNCHANGED <<element_stats, property_stats, include_geometry, seen_types, seen_psets,
                   seen_props, seen_pset_types, output_path, specification_name, material_stats,
                   classification_stats, recipe_arguments, recipe_call, recipe_files,
                   analysis_summary, seen_associations>>

\* str.lower() on the letters an include_geometry argument is spelt with.
lower_char(c) == CASE c = "T" -> "t" [] c = "R" -> "r" [] c = "U" -> "u" [] c = "E" -> "e"
                   [] c = "F" -> "f" [] c = "A" -> "a" [] c = "L" -> "l" [] c = "S" -> "s"
                   [] OTHER -> c
lower(x) == [i \in 1..Len(x) |-> lower_char(x[i])]

\* An argument value: a str, held as its sequence of pieces, or a bool, held
\* as its repr.
StrArgument(x) == [type |-> "str", val |-> x]
BoolArgument(b) == [type |-> "bool", val |-> IF b THEN <<"True">> ELSE <<"False">>]

\* bool(v) of an argument value: a str is true unless empty.
bool(v) == IF v.type = "bool" THEN v.val = <<"True">> ELSE v.val # <<>>

\* The positional arguments after the input file: an output file name, an
\* include_geometry value (a string as a command line passes it, or a bool
\* as an API caller may) and a specification name, any tail of them omitted.
GeometryArguments ==
    {StrArgument(<<"t", "r", "u", "e">>), StrArgument(<<"T", "r", "u", "e">>),
     StrArgument(<<"T", "R", "U", "E">>), StrArgument(<<"f", "a", "l", "s", "e">>),
     StrArgument(<<"F", "a", "l", "s", "e">>), StrArgument(<<>>),
     BoolArgument(TRUE), BoolArgument(FALSE)}
OutputArguments == {StrArgument(<<"requirements", ".ids">>), StrArgument(<<"out">>)}
NameArguments == {StrArgument(<<"Building Requirements">>), StrArgument(<<"Generated from IFC">>)}
RecipeArguments ==
    {<<>>} \cup {<<o>> : o \in OutputArguments}
           \cup {<<o, g>> : o \in OutputArguments, g \in GeometryArguments}
           \cup {<<o, g, n>> : o \in OutputArguments, g \in GeometryArguments, n \in NameArguments}

\* Before the recipe is invoked with recipe_arguments.
InitRecipeArgs ==
    /\ element_stats = <<>>
    /\ property_stats = <<>>
    /\ include_geometry = FALSE
    /\ ids_specifications = <<>>
    /\ recipe_pc = "invoke"
    /\ output_path = DefaultOutputPath
    /\ specification_name = DefaultSpecificationName
    /\ material_stats = <<>>
    /\ classification_stats = <<>>
    /\ recipe_arguments \in RecipeArguments
    /\ recipe_call = "none"
    /\ recipe_files = {}
    /\ analysis_summary = <<>>
    /\ seen_types = [t \in ElementTypes |-> 0]
    /\ seen_psets = [p \in PsetNames |-> 0]
    /\ seen_props = [pp \in PsetNames \X RecipePropNames |-> 0]
    /\ seen_pset_types = {}
    /\ seen_associations = [a \in {"materials", "classifications"} |-> 0]
    /\ recipe_failed = {}

\* execute(args) up to the start of Patcher.patch: arguments is
\* args.get("arguments", []).
recipe_execute ==
    /\ recipe_pc = "invoke"
    /\ LET arguments == recipe_arguments
       IN /\ output_path' = IF Len(arguments) > 0 THEN arguments[1].val ELSE DefaultOutputPath
          /\ include_geometry' = IF Len(arguments) > 1 THEN bool(arguments[2]) ELSE FALSE
          /\ specification_name' = IF Len(arguments) > 2 THEN arguments[3].val
                                   ELSE DefaultSpecificationName
    /\ recipe_call' = "execute"
    /\ recipe_pc' = "analyze"
    /\ UNCHANGED <<element_stats, property_stats, ids_specifications, material_stats,
                   classification_stats, recipe_arguments, recipe_files, analysis_summary,
                   seen_types, seen_psets, seen_props, seen_pset_types, seen_associations,
                   recipe_failed>>

\* The __main__ block up to the start of Patcher.patch: sys.argv is the
\* script, the input file and recipe_arguments, every one a string.
recipe_main ==
    /\ recipe_pc = "invoke"
    /\ \A i \in 1..Len(recipe_arguments) : recipe_arguments[i].type = "str"
    /\ LET argv == <<StrArgument(<<"Ifc2Ids", ".py">>), StrArgument(<<"model", ".ifc">>)>>
                   \o recipe_arguments
       IN /\ output_path' = IF Len(argv) > 2 THEN argv[3].val ELSE DefaultOutputPath
          /\ include_geometry' = IF Len(argv) > 3
                                 THEN lower(argv[4].val) = <<"t", "r", "u", "e">> ELSE FALSE
          /\ specification_name' = IF Len(argv) > 4 THEN argv[5].val
                                   ELSE DefaultSpecificationName
    /\ recipe_call' = "main"
    /\ recipe_pc' = "analyze"
    /\ UNCHANGED <<element_stats, property_stats, ids_specifications, material_stats,
                   classification_stats, recipe_arguments, recipe_files, analysis_summary,
                   seen_types, seen_psets, seen_props, seen_pset_types, seen_associations,
                   recipe_failed>>

\* Path(path).with_suffix(suffix) on a file name held as its stem followed by
\* its dot-led suffixes: the last suffix is replaced, a name without one gets
\* the suffix appended.
with_suffix(path, suffix) ==
    IF Len(path) > 1 THEN SubSeq(path, 1, Len(path) - 1) \o <<suffix>> ELSE path \o <<suffix>>

RECURSIVE total_elements(_)
total_elements(stats) ==
    IF stats = <<>> THEN 0 ELSE Head(stats).count + total_elements(Tail(stats))

\* The 'analysis_summary' of the dict built by _create_summary_report.
summary_report ==
    [total_element_types |-> Len(element_stats),
     total_elements |-> total_elements(element_stats),
     property_sets_found |-> Len(property_stats),
     materials_found |-> Len(material_stats),
     classifications_found |-> Len(classification_stats),
     specifications_created |-> Len(ids_specifications)]

\* open(path, 'w') and a complete write: the file at path now holds content.
WriteFile(files, path, content) ==
    {f \in files : f.path # path} \cup {[path |-> path, content |-> content]}

\* Faulty variant: a summary that cannot be written fails the run.
save_ids_file_strict ==
    /\ recipe_pc = "done"
    /\ \E to_xml_raises, dump_raises \in BOOLEAN :
          IF to_xml_raises
          THEN /\ recipe_pc' = "raised"
               /\ recipe_failed' = {"ids"}
               /\ UNCHANGED <<recipe_files, analysis_summary>>
          ELSE /\ analysis_summary' = <<summary_report>>
               /\ recipe_files' =
                     IF dump_raises THEN WriteFile(recipe_files, output_path, "ids")
                     ELSE WriteFile(WriteFile(recipe_files, output_path, "ids"),
                                    with_suffix(output_path, ".json"), "summary")
               /\ recipe_pc' = IF dump_raises THEN "raised" ELSE "saved"
               /\ recipe_failed' = IF dump_raises THEN {"summary"} ELSE {}
    /\ UNCHANGED <<element_stats, property_stats, include_geometry, ids_specifications,
                   output_path, specification_name, material_stats, classification_stats,
                   recipe_arguments, recipe_call, seen_types, seen_psets, seen_props,
                   seen_pset_types, seen_associations>>

\* Patcher._save_ids_file with _create_summary_report: to_xml_raises is
\* ids_spec.to_xml failing (logged and re-raised), dump_raises is open or
\* json.dump of the summary failing (logged as a warning).
save_ids_file ==
    /\ recipe_pc = "done"
    /\ \E to_xml_raises, dump_raises \in BOOLEAN :
          IF to_xml_raises
          THEN /\ recipe_pc' = "raised"
               /\ recipe_failed' = {"ids"}
               /\ UNCHANGED <<recipe_files, analysis_summary>>
          ELSE /\ analysis_summary' = <<summary_report>>
               /\ recipe_files' =
                     IF dump_raises THEN WriteFile(recipe_files, output_path, "ids")
                     ELSE WriteFile(WriteFile(recipe_files, output_path, "ids"),
                                    with_suffix(output_path, ".json"), "summary")
               /\ recipe_pc' = "saved"
               /\ recipe_failed' = IF dump_raises THEN {"summary"} ELSE {}
    /\ UNCHANGED <<element_stats, property_stats, include_geometry, ids_specifications,
                   output_path, specification_name, material_stats, classification_stats,
                   recipe_arguments, recipe_call, seen_types, seen_psets, seen_props,
                   seen_pset_types, seen_associations>>

(***************************************************************************)
(* Fetch Panel: Connect and Download                                       *)
(***************************************************************************)
DomainModel(guid, name) == [guid |-> guid, name |-> name]

\* Faulty variant: the fallback list lacks its last model.
get_mock_domain_models_short ==
    << DomainModel("12345678-1234-1234-1234-123456789abc", "Brandschutz Hochbau 2024"),
       DomainModel("87654321-4321-4321-4321-cba987654321", "Barrierefreiheit DIN 18040"),
       DomainModel("abcdef12-3456-7890-abcd-ef1234567890", "DB InfraGO Eisenbahnbrücken") >>

\* BIM_OT_connect_ids_server._get_mock_domain_models
get_mock_domain_models ==
    << DomainModel("12345678-1234-1234-1234-123456789abc", "Brandschutz Hochbau 2024"),
       DomainModel("87654321-4321-4321-4321-cba987654321", "Barrierefreiheit DIN 18040"),
       DomainModel("abcdef12-3456-7890-abcd-ef1234567890", "DB InfraGO Eisenbahnbrücken"),
       DomainModel("fedcba98-7654-3210-fedc-ba9876543210", "Nachhaltigkeit DGNB") >>

\* An element of the JSON array the portal answers with: an object with
\* string fields, an object whose "name" is null, or a value that is no object.
JsonModel(json, guid, name) == [json |-> json, guid |-> guid, name |-> name]
PortalModel == JsonModel("object", "g1", "Model1")
PortalModelNoGuid == JsonModel("object", "", "Model2")
PortalModelNullName == JsonModel("null_name", "g3", "")
PortalNotAnObject == JsonModel("string", "", "")

\* requests.exceptions.RequestException: unreachable host, timeout, and the
\* HTTPError raise_for_status() raises for an error status.
RequestErrors == {"ConnectionError", "Timeout", "HTTPError"}

Response(kind, is_list, items) == [kind |-> kind, is_list |-> is_list, items |-> items]

\* What the model-list request can give: a request error, or a decoded body.
ModelListResponses ==
    {Response(e, FALSE, <<>>) : e \in RequestErrors} \cup
    { Response("ok", FALSE, <<>>),
      Response("ok", TRUE, <<>>),
      Response("ok", TRUE, <<PortalModel>>),
      Response("ok", TRUE, <<PortalModel, PortalModelNoGuid>>),
      Response("ok", TRUE, <<PortalModel, PortalModelNullName, PortalModel>>),
      Response("ok", TRUE, <<PortalNotAnObject>>),
      Response("ok", TRUE, <<PortalModel, PortalModel, PortalModel, PortalNotAnObject>>) }

\* BIM_OT_connect_ids_server._fetch_bim_portal_models: a request error, a body
\* that cannot be sliced, or a non-object among the first three models gives
\* the mock list.
fetch_bim_portal_models(response) ==
    IF response.kind # "ok" THEN get_mock_domain_models
    ELSE IF ~response.is_list THEN get_mock_domain_models
    ELSE IF \E i \in 1..Len(response.items) : i <= 3 /\ response.items[i].json = "string"
    THEN get_mock_domain_models
    ELSE response.items

IsJsonModel(m) == "json" \in DOMAIN m

\* model.get(...) and the assignment to the item's string properties raise
\* for a model that is no object or whose name is null.
ModelRaises(m) == IsJsonModel(m) /\ m.json # "object"

\* The collection item left behind by the model on which the loop raised:
\* add() has run, and the guid was assigned if the model is an object.
PartialItem(m) == DomainModel(IF m.json = "string" THEN "" ELSE m.guid, "")

\* "for model in domain_models": the collection after the loop, and whether
\* the loop raised.
RECURSIVE add_models(_, _)
add_models(collection, domain_models) ==
    IF domain_models = <<>> THEN [items |-> collection, raised |-> FALSE]
    ELSE IF ModelRaises(Head(domain_models))
         THEN [items |-> Append(collection, PartialItem(Head(domain_models))), raised |-> TRUE]
         ELSE add_models(Append(collection, DomainModel(Head(domain_models).guid,
                                                        Head(domain_models).name)),
                         Tail(domain_models))

\* A call of the requests library: the method, the URL as its path segments
\* below the portal's model endpoint, and the json argument as the body it
\* is sent as ("" when the call has none).
Request(method, url, json) == [method |-> method, url |-> url, json |-> json]

\* BIM_PORTAL_API, which has the value of the connector's BASE_URL
ModelEndpoint == "https://via.bund.de/bim/aia/api/v1/public/domainSpecificModel"

\* BIM_OT_connect_ids_server._fetch_bim_portal_models: requests.post(...)
bim_portal_models_request == Request("POST", <<ModelEndpoint>>, "{}")

\* BIM_OT_download_domain_model_ids._fetch_ids_from_bim_portal: requests.get(...)
ids_request(guid) == Request("GET", <<ModelEndpoint, guid, "IDS">>, "")

FetchCall(op, via, result, level, message) ==
    [op |-> op, via |-> via, result |-> result, level |-> level, message |-> message]

NoDownload == [path |-> <<>>, name |-> "", guid |-> "", content |-> ""]

FetchIdle ==
    /\ ids_fetch_server_connected = FALSE
    /\ ids_fetch_models_count = 0
    /\ ids_fetch_domain_models = <<>>
    /\ ids_fetch_last_download = <<>>
    /\ ids_fetch_last_model_name = ""
    /\ ids_fetch_last_model_guid = ""
    /\ fetch_last = FetchCall("register", "", "", "", "")
    /\ fetch_request = ""
    /\ fetch_http = <<>>
    /\ fetch_filepath = <<>>
    /\ fetch_written = NoDownload
    /\ fetch_connected_once = FALSE

\* Faulty variant: the error branch leaves the session connected.
connect_ids_server_stays_connected ==
    /\ \E response \in ModelListResponses :
          LET domain_models == fetch_bim_portal_models(response)
              added == add_models(<<>>, domain_models)
          IN /\ fetch_request' = response.kind
             /\ fetch_http' = <<bim_portal_models_request>>
             /\ ids_fetch_domain_models' = added.items
             /\ ids_fetch_server_connected' = TRUE
             /\ IF added.raised
                THEN /\ ids_fetch_models_count' = 0
                     /\ fetch_last' = FetchCall("connect", "panel", "CANCELLED", "ERROR", "Verbindungsfehler")
                     /\ UNCHANGED fetch_connected_once
                ELSE /\ ids_fetch_models_count' = Len(domain_models)
                     /\ fetch_last' = FetchCall("connect", "panel", "FINISHED", "INFO", "Fachmodelle geladen")
                     /\ fetch_connected_once' = TRUE
    /\ UNCHANGED <<ids_fetch_last_download, ids_fetch_last_model_name,
                   ids_fetch_last_model_guid, fetch_written, fetch_filepath>>

\* BIM_OT_connect_ids_server.execute (the server selection has one value,
\* DE_BIM_PORTAL)
connect_ids_server ==
    /\ \E response \in ModelListResponses :
          LET domain_models == fetch_bim_portal_models(response)
              added == add_models(<<>>, domain_models)
          IN /\ fetch_request' = response.kind
             /\ fetch_http' = <<bim_portal_models_request>>
             /\ ids_fetch_domain_models' = added.items
             /\ IF added.raised
                THEN /\ ids_fetch_server_connected' = FALSE
                     /\ ids_fetch_models_count' = 0
                     /\ fetch_last' = FetchCall("connect", "panel", "CANCELLED", "ERROR", "Verbindungsfehler")
                     /\ UNCHANGED fetch_connected_once
                ELSE /\ ids_fetch_server_connected' = TRUE
                     /\ ids_fetch_models_count' = Len(domain_models)
                     /\ fetch_last' = FetchCall("connect", "panel", "FINISHED", "INFO", "Fachmodelle geladen")
                     /\ fetch_connected_once' = TRUE
    /\ UNCHANGED <<ids_fetch_last_download, ids_fetch_last_model_name,
                   ids_fetch_last_model_guid, fetch_written, fetch_filepath>>

\* Save locations: none, a name without suffix, with the .ids suffix, with
\* another suffix, and the root directory (a path without a name).
FetchPaths ==
    { <<>>, <<"a">>, <<"a", ".", "i", "d", "s">>, <<"a", ".", "x", "m", "l">>, <<"/">> }

DotIds == <<".", "i", "d", "s">>

\* pathlib: Path.suffix
PathSuffix(p) ==
    LET i == Max({0} \cup {k \in 1..Len(p) : p[k] = "."})
    IN IF i > 1 /\ i < Len(p) THEN SubSeq(p, i, Len(p)) ELSE <<>>

\* pathlib: Path.name is empty for the root
HasEmptyName(p) == p = <<"/">>

\* "if not filepath.suffix == '.ids': filepath = filepath.with_suffix('.ids')";
\* with_suffix raises ValueError for a path with an empty name.
ids_filepath(p) ==
    IF PathSuffix(p) = DotIds THEN [ok |-> TRUE, path |-> p]
    ELSE IF HasEmptyName(p) THEN [ok |-> FALSE, path |-> p]
    ELSE [ok |-> TRUE, path |-> SubSeq(p, 1, Len(p) - Len(PathSuffix(p))) \o DotIds]

\* BIM_OT_download_domain_model_ids._create_mock_ids_content: the title and
\* the names of the two specifications of the mock document.
create_mock_ids_content(model_name) ==
    [title |-> model_name,
     specifications |-> <<"Grundanforderungen " \o model_name, "Türen " \o model_name>>]

\* What the IDS request can give: a request error, another exception, a body,
\* or an empty body.
IdsResponses == RequestErrors \cup {"UnexpectedError", "ok", "ok_empty"}

PortalIds == [title |-> "portal", specifications |-> <<>>]
NoContent == [title |-> "", specifications |-> <<>>]

\* Faulty variant: a request error gives no content.
fetch_ids_from_bim_portal_no_fallback(response, model_name) ==
    IF response = "ok" THEN [truthy |-> TRUE, content |-> PortalIds]
    ELSE [truthy |-> FALSE, content |-> NoContent]

\* BIM_OT_download_domain_model_ids._fetch_ids_from_bim_portal: truthy is
\* "if ids_content:" (false for None and for an empty body).
fetch_ids_from_bim_portal(response, model_name) ==
    IF response = "ok" THEN [truthy |-> TRUE, content |-> PortalIds]
    ELSE IF response = "ok_empty" THEN [truthy |-> FALSE, content |-> NoContent]
    ELSE IF response \in RequestErrors
    THEN [truthy |-> TRUE, content |-> create_mock_ids_content(model_name)]
    ELSE [truthy |-> FALSE, content |-> NoContent]

\* Faulty variant: the download information is stored before the file is
\* written.
download_execute_store_first(model_guid, model_name, filepath, via) ==
    IF model_guid = ""
    THEN /\ fetch_last' = FetchCall("download", via, "CANCELLED", "ERROR", "Keine Modell-GUID angegeben")
         /\ fetch_request' = ""
         /\ fetch_http' = <<>>
         /\ fetch_filepath' = filepath
         /\ UNCHANGED <<ids_fetch_last_download, ids_fetch_last_model_name,
                        ids_fetch_last_model_guid, fetch_written>>
    ELSE IF filepath = <<>>
    THEN /\ fetch_last' = FetchCall("download", via, "CANCELLED", "ERROR", "Kein Speicherort ausgewählt")
         /\ fetch_request' = ""
         /\ fetch_http' = <<>>
         /\ fetch_filepath' = filepath
         /\ UNCHANGED <<ids_fetch_last_download, ids_fetch_last_model_name,
                        ids_fetch_last_model_guid, fetch_written>>
    ELSE \E response \in IdsResponses, write_ok \in BOOLEAN :
            LET ids_content == fetch_ids_from_bim_portal(response, model_name)
                target == ids_filepath(filepath)
            IN /\ fetch_request' = response
               /\ fetch_http' = <<ids_request(model_guid)>>
               /\ fetch_filepath' = filepath
               /\ ids_fetch_last_download' = target.path
               /\ ids_fetch_last_model_name' = model_name
               /\ ids_fetch_last_model_guid' = model_guid
               /\ IF ids_content.truthy /\ target.ok /\ write_ok
                  THEN /\ fetch_written' = [path |-> target.path, name |-> model_name,
                                            guid |-> model_guid, content |-> ids_content.content]
                       /\ fetch_last' = FetchCall("download", via, "FINISHED", "INFO", "IDS gespeichert")
                  ELSE /\ fetch_last' = FetchCall("download", via, "CANCELLED", "ERROR", "Fehler")
                       /\ UNCHANGED fetch_written

\* BIM_OT_download_domain_model_ids.execute
download_execute(model_guid, model_name, filepath, via) ==
    IF model_guid = ""
    THEN /\ fetch_last' = FetchCall("download", via, "CANCELLED", "ERROR", "Keine Modell-GUID angegeben")
         /\ fetch_request' = ""
         /\ fetch_http' = <<>>
         /\ fetch_filepath' = filepath
         /\ UNCHANGED <<ids_fetch_last_download, ids_fetch_last_model_name,
                        ids_fetch_last_model_guid, fetch_written>>
    ELSE IF filepath = <<>>
    THEN /\ fetch_last' = FetchCall("download", via, "CANCELLED", "ERROR", "Kein Speicherort ausgewählt")
         /\ fetch_request' = ""
         /\ fetch_http' = <<>>
         /\ fetch_filepath' = filepath
         /\ UNCHANGED <<ids_fetch_last_download, ids_fetch_last_model_name,
                        ids_fetch_last_model_guid, fetch_written>>
    ELSE \E response \in IdsResponses, write_ok \in BOOLEAN :
            LET ids_content == fetch_ids_from_bim_portal(response, model_name)
                target == ids_filepath(filepath)
            IN /\ fetch_request' = response
               /\ fetch_http' = <<ids_request(model_guid)>>
               /\ fetch_filepath' = filepath
               /\ IF ~ids_content.truthy
                  THEN /\ fetch_last' = FetchCall("download", via, "CANCELLED", "ERROR",
                                                  "IDS-Inhalt konnte nicht geladen werden")
                       /\ UNCHANGED <<ids_fetch_last_download, ids_fetch_last_model_name,
                                      ids_fetch_last_model_guid, fetch_written>>
                  ELSE IF ~target.ok \/ ~write_ok
                  THEN \* with_suffix, mkdir, open or write raised
                       /\ fetch_last' = FetchCall("download", via, "CANCELLED", "ERROR",
                                                  "Fehler beim Speichern")
                       /\ UNCHANGED <<ids_fetch_last_download, ids_fetch_last_model_name,
                                      ids_fetch_last_model_guid, fetch_written>>
                  ELSE /\ fetch_written' = [path |-> target.path, name |-> model_name,
                                            guid |-> model_guid, content |-> ids_content.content]
                       /\ ids_fetch_last_download' = target.path
                       /\ ids_fetch_last_model_name' = model_name
                       /\ ids_fetch_last_model_guid' = model_guid
                       /\ fetch_last' = FetchCall("download", via, "FINISHED", "INFO", "IDS gespeichert")

\* BIM_PT_ids_fetch.draw: the model list with its Download buttons is drawn
DownloadOffered == ids_fetch_server_connected /\ Len(ids_fetch_domain_models) > 0

\* BIM_PT_ids_fetch.draw: the "Last Download" box is drawn
LastDownloadShown == ids_fetch_last_download # <<>>

\* A Download button of the panel: invoke (which refuses a model without guid
\* or name), the file browser, then execute.
panel_download ==
    /\ DownloadOffered
    /\ \E i \in 1..Len(ids_fetch_domain_models), filepath \in FetchPaths :
          LET model == ids_fetch_domain_models[i]
          IN IF model.guid = "" \/ model.name = ""
             THEN /\ fetch_last' = FetchCall("download", "panel", "CANCELLED", "ERROR",
                                             "Modell-Informationen fehlen")
                  /\ fetch_request' = ""
                  /\ fetch_http' = <<>>
                  /\ fetch_filepath' = <<>>
                  /\ UNCHANGED <<ids_fetch_last_download, ids_fetch_last_model_name,
                                 ids_fetch_last_model_guid, fetch_written>>
             ELSE download_execute(model.guid, model.name, filepath, "panel")
    /\ UNCHANGED <<ids_fetch_server_connected, ids_fetch_models_count,
                   ids_fetch_domain_models, fetch_connected_once>>

\* The operator called from a script: execute with any properties.
script_download ==
    /\ \E model_guid \in {"", "g1"}, model_name \in {"", "Model1"}, filepath \in FetchPaths :
          download_execute(model_guid, model_name, filepath, "script")
    /\ UNCHANGED <<ids_fetch_server_connected, ids_fetch_models_count,
                   ids_fetch_domain_models, fetch_connected_once>>

\* Faulty variant: the model list is asked for with a GET without a body.
fetch_domain_specific_models_get == Request("GET", <<ModelEndpoint>>, "")

\* BIMPortalConnector.fetch_domain_specific_models: requests.post(...)
fetch_domain_specific_models == Request("POST", <<ModelEndpoint>>, "{}")

\* BIMPortalConnector.download_ids_xml: requests.get(...)
download_ids_xml(guid) == Request("GET", <<ModelEndpoint, guid, "IDS">>, "")

\* BIMPortalConnector.main: the model list, the printed choice, then the IDS
\* of the first model.  An exception leaves the script ("RAISED"); key_error
\* is the print loop meeting a model without "guid".
connector_main ==
    /\ \E response \in ModelListResponses, key_error \in BOOLEAN, ids \in IdsResponses :
          LET models == response.items
              first_model == models[1]
              raises == \/ response.kind # "ok"
                        \/ ~response.is_list
                        \/ \E i \in 1..Len(models) : ModelRaises(models[i])
                        \/ key_error /\ \E i \in 1..Len(models) : models[i].guid = ""
              returns == models = <<>> \/ first_model.guid = ""
          IN /\ fetch_request' = response.kind
             /\ IF raises
                THEN /\ fetch_http' = <<fetch_domain_specific_models>>
                     /\ fetch_last' = FetchCall("main", "connector", "RAISED", "", "")
                     /\ UNCHANGED fetch_written
                ELSE IF returns
                THEN /\ fetch_http' = <<fetch_domain_specific_models>>
                     /\ fetch_last' = FetchCall("main", "connector", "RETURNED", "", "")
                     /\ UNCHANGED fetch_written
                ELSE /\ fetch_http' = <<fetch_domain_specific_models,
                                        download_ids_xml(first_model.guid)>>
                     /\ IF ids \in {"ok", "ok_empty"}
                        THEN /\ fetch_written' =
                                   [path |-> <<first_model.name>> \o DotIds,
                                    name |-> first_model.name, guid |-> first_model.guid,
                                    content |-> IF ids = "ok" THEN PortalIds ELSE NoContent]
                             /\ fetch_last' = FetchCall("main", "connector", "RETURNED", "", "")
                        ELSE /\ fetch_last' = FetchCall("main", "connector", "RAISED", "", "")
                             /\ UNCHANGED fetch_written
    /\ UNCHANGED <<ids_fetch_server_connected, ids_fetch_models_count, ids_fetch_domain_models,
                   ids_fetch_last_download, ids_fetch_last_model_name,
                   ids_fetch_last_model_guid, fetch_filepath, fetch_connected_once>>

(***************************************************************************)
(* Session lifecycle: register / unregister of the panels and the three    *)
(* cleanup scripts.  bpy.types and bpy.types.Scene are the sets of names   *)
(* currently defined on them.  A script run registers fresh class objects; *)
(* Blender replaces a registered class of the same name.                   *)
(***************************************************************************)
SessionCall(op, exc, clean) == [op |-> op, exc |-> exc, clean |-> clean]

\* the call before was the same operation and it returned
Again(op) == session_last.op = op /\ session_last.exc = ""

SessionIdle ==
    /\ bpy_types = {}
    /\ scene_props = {}
    /\ ifc2ids_tool_loaded = FALSE
    /\ session_last = SessionCall("", "", "")
    /\ session_again = FALSE

\* Python string primitives the cleanup scripts apply to names:
\* str.lower(), letter by letter
LowerCase ==
    [A |-> "a", B |-> "b", C |-> "c", D |-> "d", E |-> "e", F |-> "f", G |-> "g",
     H |-> "h", I |-> "i", J |-> "j", K |-> "k", L |-> "l", M |-> "m", N |-> "n",
     O |-> "o", P |-> "p", Q |-> "q", R |-> "r", S |-> "s", T |-> "t", U |-> "u",
     V |-> "v", W |-> "w", X |-> "x", Y |-> "y", Z |-> "z"]

LowerChar(c) == IF c \in DOMAIN LowerCase THEN LowerCase[c] ELSE c

\* needle in name.lower()
PyInLower(needle, name) ==
    \E k \in 0..(Len(name) - Len(needle)) :
        \A i \in 1..Len(needle) :
            LowerChar(SubSeq(name, k + i, k + i)) = SubSeq(needle, i, i)

\* needle in name
PyIn(needle, name) ==
    \E k \in 0..(Len(name) - Len(needle)) :
        SubSeq(name, k + 1, k + Len(needle)) = needle

\* name.startswith(prefix)
StartsWith(name, prefix) ==
    Len(name) >= Len(prefix) /\ SubSeq(name, 1, Len(prefix)) = prefix

\* bpy.utils.unregister_class / del bpy.types.Scene.x outside any try block,
\* one name after the other: the first name that is not there raises
RECURSIVE remove_in_order(_, _)
remove_in_order(present, names) ==
    IF names = <<>> THEN [left |-> present, raised |-> FALSE]
    ELSE IF Head(names) \notin present THEN [left |-> present, raised |-> TRUE]
    ELSE remove_in_order(present \ {Head(names)}, Tail(names))

\* ids_patch_panel.py register()
ids_patch_register ==
    /\ bpy_types' = bpy_types \cup
          {"IDS_PATCH_OT_load_ifc_file", "IDS_PATCH_OT_load_ids_file",
           "IDS_PATCH_OT_patch_ifc", "IDS_PATCH_OT_save_fixed_ifc",
           "IDS_PATCH_OT_open_saved_file", "IDS_PATCH_PT_panel"}
    /\ scene_props' = scene_props \cup
          {"ids_patch_ifc_file_path", "ids_patch_ifc_file_loaded",
           "ids_patch_ids_file_path", "ids_patch_ids_file_loaded",
           "ids_patch_output_file", "ids_patch_has_output",
           "ids_patch_saved_file_path", "ids_patch_file_saved"}
    /\ session_last' = SessionCall("ids_patch_panel.register", "", "")
    /\ session_again' = Again("ids_patch_panel.register")
    /\ UNCHANGED ifc2ids_tool_loaded

\* ids_patch_panel.py unregister(): hasattr-guarded delattr, try-guarded
\* unregister_class
ids_patch_unregister ==
    /\ scene_props' = scene_props \
          {"ids_patch_ifc_file_path", "ids_patch_ifc_file_loaded",
           "ids_patch_ids_file_path", "ids_patch_ids_file_loaded",
           "ids_patch_output_file", "ids_patch_has_output",
           "ids_patch_saved_file_path", "ids_patch_file_saved"}
    /\ bpy_types' = bpy_types \
          {"IDS_PATCH_PT_panel", "IDS_PATCH_OT_open_saved_file",
           "IDS_PATCH_OT_save_fixed_ifc", "IDS_PATCH_OT_patch_ifc",
           "IDS_PATCH_OT_load_ids_file", "IDS_PATCH_OT_load_ifc_file"}
    /\ session_last' = SessionCall("ids_patch_panel.unregister", "", "")
    /\ session_again' = Again("ids_patch_panel.unregister")
    /\ UNCHANGED ifc2ids_tool_loaded

\* ids_fetch_panel.py unregister_properties()
unregister_properties(props) ==
    props \ {"ids_fetch_server_selection", "ids_fetch_server_connected",
             "ids_fetch_models_count", "ids_fetch_domain_models",
             "ids_fetch_last_download", "ids_fetch_last_model_name",
             "ids_fetch_last_model_guid"}

\* ids_fetch_panel.py register(): unregister_properties(), the classes (an
\* already registered one is skipped), then register_properties(), which
\* finds ids_fetch_server_selection absent and defines all seven
ids_fetch_register ==
    /\ bpy_types' = bpy_types \cup
          {"IDS_DomainModel_Item", "BIM_OT_connect_ids_server",
           "BIM_OT_download_domain_model_ids", "BIM_PT_ids_fetch"}
    /\ scene_props' = unregister_properties(scene_props) \cup
          {"ids_fetch_server_selection", "ids_fetch_server_connected",
           "ids_fetch_models_count", "ids_fetch_domain_models",
           "ids_fetch_last_download", "ids_fetch_last_model_name",
           "ids_fetch_last_model_guid"}
    /\ session_last' = SessionCall("ids_fetch_panel.register", "", "")
    /\ session_again' = Again("ids_fetch_panel.register")
    /\ UNCHANGED ifc2ids_tool_loaded

\* ids_fetch_panel.py unregister()
ids_fetch_unregister ==
    /\ scene_props' = unregister_properties(scene_props)
    /\ bpy_types' = bpy_types \
          {"BIM_PT_ids_fetch", "BIM_OT_download_domain_model_ids",
           "BIM_OT_connect_ids_server", "IDS_DomainModel_Item"}
    /\ session_last' = SessionCall("ids_fetch_panel.unregister", "", "")
    /\ session_again' = Again("ids_fetch_panel.unregister")
    /\ UNCHANGED ifc2ids_tool_loaded

\* archive/ifc2ids_standalone_tool.py, the module body: the Scene property is
\* assigned when the file is executed; run as __main__ it then calls
\* register()
ifc2ids_tool_load ==
    \E as_main \in BOOLEAN :
        /\ scene_props' = scene_props \cup {"ifc2ids_output_path"}
        /\ bpy_types' = IF as_main
                        THEN bpy_types \cup {"BIM_OT_ifc2ids_converter", "BIM_PT_ifc2ids_tool"}
                        ELSE bpy_types
        /\ ifc2ids_tool_loaded' = TRUE
        /\ session_last' = SessionCall(IF as_main THEN "ifc2ids_standalone_tool.register"
                                       ELSE "ifc2ids_standalone_tool.import", "", "")
        /\ session_again' = FALSE

\* archive/ifc2ids_standalone_tool.py register()
ifc2ids_tool_register ==
    /\ ifc2ids_tool_loaded
    /\ bpy_types' = bpy_types \cup {"BIM_OT_ifc2ids_converter", "BIM_PT_ifc2ids_tool"}
    /\ session_last' = SessionCall("ifc2ids_standalone_tool.register", "", "")
    /\ session_again' = Again("ifc2ids_standalone_tool.register")
    /\ UNCHANGED <<scene_props, ifc2ids_tool_loaded>>

\* archive/ifc2ids_standalone_tool.py unregister(): nothing is guarded
ifc2ids_tool_unregister ==
    /\ ifc2ids_tool_loaded
    /\ LET classes == remove_in_order(bpy_types,
                          <<"BIM_PT_ifc2ids_tool", "BIM_OT_ifc2ids_converter">>)
           props == remove_in_order(scene_props, <<"ifc2ids_output_path">>)
       IN /\ bpy_types' = classes.left
          /\ scene_props' = IF classes.raised THEN scene_props ELSE props.left
          /\ session_last' = SessionCall("ifc2ids_standalone_tool.unregister",
                                 IF classes.raised THEN "RuntimeError"
                                 ELSE IF props.raised THEN "AttributeError" ELSE "",
                                 "")
    /\ session_again' = Again("ifc2ids_standalone_tool.unregister")
    /\ UNCHANGED ifc2ids_tool_loaded

\* ifcfromids_collaboration_panel.py register(): register_properties(), then
\* the classes
ifcfromids_register ==
    /\ scene_props' = scene_props \cup
          {"ifcfromids_ids_path", "ifcfromids_output_path", "ifcfromids_use_current",
           "ifcfromids_spec_count", "ifcfromids_summary"}
    /\ bpy_types' = bpy_types \cup
          {"BIM_OT_load_ids_file", "BIM_OT_generate_ifc_template",
           "BIM_OT_validate_current_ifc", "BIM_PT_ifcfromids_converter"}
    /\ session_last' = SessionCall("ifcfromids_collaboration_panel.register", "", "")
    /\ session_again' = Again("ifcfromids_collaboration_panel.register")
    /\ UNCHANGED ifc2ids_tool_loaded

\* ifcfromids_collaboration_panel.py unregister(): the classes in reverse
\* order, then unregister_properties(); nothing is guarded
ifcfromids_unregister ==
    /\ LET classes == remove_in_order(bpy_types,
                          <<"BIM_PT_ifcfromids_converter", "BIM_OT_validate_current_ifc",
                            "BIM_OT_generate_ifc_template", "BIM_OT_load_ids_file">>)
           props == remove_in_order(scene_props,
                          <<"ifcfromids_ids_path", "ifcfromids_output_path",
                            "ifcfromids_use_current", "ifcfromids_spec_count",
                            "ifcfromids_summary">>)
       IN /\ bpy_types' = classes.left
          /\ scene_props' = IF classes.raised THEN scene_props ELSE props.left
          /\ session_last' = SessionCall("ifcfromids_collaboration_panel.unregister",
                                 IF classes.raised THEN "RuntimeError"
                                 ELSE IF props.raised THEN "AttributeError" ELSE "",
                                 "")
    /\ session_again' = Again("ifcfromids_collaboration_panel.unregister")
    /\ UNCHANGED ifc2ids_tool_loaded

\* ids_patch_removal_clean.py verify_cleanup()
verify_cleanup(types, props) ==
    LET remaining_properties ==
            props \cap {"ids_patch_ifc_file_path", "ids_patch_ifc_file_loaded",
                        "ids_patch_ids_file_path", "ids_patch_ids_file_loaded"}
        remaining_classes ==
            types \cap {"IDS_PATCH_PT_panel", "IDS_PATCH_OT_load_ifc_file",
                        "IDS_PATCH_OT_load_ids_file"}
    IN remaining_properties = {} /\ remaining_classes = {}

\* ids_patch_removal_clean.py clean_ids_patch(): reset_scene_data(),
\* remove_ids_patch_classes(), remove_ids_patch_properties(), verify_cleanup()
clean_ids_patch ==
    /\ ids_patch_ifc_file_loaded' =
          IF "ids_patch_ifc_file_loaded" \in scene_props THEN FALSE
          ELSE ids_patch_ifc_file_loaded
    /\ ids_patch_ids_file_loaded' =
          IF "ids_patch_ids_file_loaded" \in scene_props THEN FALSE
          ELSE ids_patch_ids_file_loaded
    /\ ids_patch_ifc_file_path' =
          IF "ids_patch_ifc_file_path" \in scene_props THEN <<>>
          ELSE ids_patch_ifc_file_path
    /\ ids_patch_ids_file_path' =
          IF "ids_patch_ids_file_path" \in scene_props THEN <<>>
          ELSE ids_patch_ids_file_path
    /\ bpy_types' = bpy_types \
          {"IDS_PATCH_PT_panel", "IDS_PATCH_OT_load_ids_file",
           "IDS_PATCH_OT_load_ifc_file"}
    /\ scene_props' = scene_props \
          {"ids_patch_ifc_file_path", "ids_patch_ifc_file_loaded",
           "ids_patch_ids_file_path", "ids_patch_ids_file_loaded"}
    /\ session_last' = SessionCall("clean_ids_patch", "",
                          IF verify_cleanup(bpy_types', scene_props')
                          THEN "clean" ELSE "incomplete")
    /\ session_again' = Again("clean_ids_patch")
    /\ UNCHANGED <<ids_patch_output_file, ids_patch_has_output, ids_patch_saved_file_path,
                   ids_patch_file_saved, patch_written, patch_opened, patch_last,
                   ifc2ids_tool_loaded>>

\* Faulty variant: the PropertyGroup class is left out of the list.
remove_ids_fetch_classes_without_item(types) ==
    types \ {"BIM_PT_ids_fetch", "BIM_OT_download_domain_model_ids",
             "BIM_OT_connect_ids_server"}

\* ids_fetch_removal.py remove_ids_fetch_classes()
remove_ids_fetch_classes(types) ==
    types \ {"BIM_PT_ids_fetch", "BIM_OT_download_domain_model_ids",
             "BIM_OT_connect_ids_server", "IDS_DomainModel_Item"}

\* ids_fetch_removal.py check_ids_fetch_status()
check_ids_fetch_status(types, props) ==
    LET remaining_properties ==
            props \cap {"ids_fetch_server_selection", "ids_fetch_server_connected",
                        "ids_fetch_models_count", "ids_fetch_domain_models",
                        "ids_fetch_last_download", "ids_fetch_last_model_name",
                        "ids_fetch_last_model_guid"}
        remaining_classes ==
            types \cap {"IDS_DomainModel_Item", "BIM_OT_connect_ids_server",
                        "BIM_OT_download_domain_model_ids", "BIM_PT_ids_fetch"}
    IN remaining_properties = {} /\ remaining_classes = {}

\* ids_fetch_removal.py force_remove_ids_fetch(), entered as op:
\* remove_ids_fetch_properties() resets the stored value of each property the
\* scene has and deletes its definition, then remove_ids_fetch_classes(),
\* then check_ids_fetch_status()
force_remove_ids_fetch_as(op) ==
    /\ ids_fetch_server_connected' =
          IF "ids_fetch_server_connected" \in scene_props THEN FALSE
          ELSE ids_fetch_server_connected
    /\ ids_fetch_models_count' =
          IF "ids_fetch_models_count" \in scene_props THEN 0
          ELSE ids_fetch_models_count
    /\ ids_fetch_domain_models' =
          IF "ids_fetch_domain_models" \in scene_props THEN <<>>
          ELSE ids_fetch_domain_models
    /\ ids_fetch_last_download' =
          IF "ids_fetch_last_download" \in scene_props THEN <<>>
          ELSE ids_fetch_last_download
    /\ ids_fetch_last_model_name' =
          IF "ids_fetch_last_model_name" \in scene_props THEN ""
          ELSE ids_fetch_last_model_name
    /\ ids_fetch_last_model_guid' =
          IF "ids_fetch_last_model_guid" \in scene_props THEN ""
          ELSE ids_fetch_last_model_guid
    /\ scene_props' = scene_props \
          {"ids_fetch_server_selection", "ids_fetch_server_connected",
           "ids_fetch_models_count", "ids_fetch_domain_models",
           "ids_fetch_last_download", "ids_fetch_last_model_name",
           "ids_fetch_last_model_guid"}
    /\ bpy_types' = remove_ids_fetch_classes(bpy_types)
    /\ session_last' = SessionCall(op, "",
                          IF check_ids_fetch_status(bpy_types', scene_props')
                          THEN "clean" ELSE "incomplete")
    /\ session_again' = Again(op)
    /\ UNCHANGED <<fetch_last, fetch_request, fetch_http, fetch_filepath, fetch_written,
                   fetch_connected_once, ifc2ids_tool_loaded>>

force_remove_ids_fetch == force_remove_ids_fetch_as("force_remove_ids_fetch")

\* ids_fetch_removal.py safe_remove_ids_fetch(): nothing is touched when the
\* status check already finds the session clean
safe_remove_ids_fetch ==
    IF check_ids_fetch_status(bpy_types, scene_props)
    THEN /\ session_last' = SessionCall("safe_remove_ids_fetch", "", "clean")
         /\ session_again' = Again("safe_remove_ids_fetch")
         /\ UNCHANGED <<bpy_types, scene_props, ifc2ids_tool_loaded, fetchVars>>
    ELSE force_remove_ids_fetch_as("safe_remove_ids_fetch")

\* ids_fetch_removal.py remove_only_ui()
remove_only_ui ==
    /\ bpy_types' = bpy_types \ {"BIM_PT_ids_fetch", "BIM_OT_connect_ids_server",
                                 "BIM_OT_download_domain_model_ids"}
    /\ session_last' = SessionCall("remove_only_ui", "", "")
    /\ session_again' = Again("remove_only_ui")
    /\ UNCHANGED <<scene_props, ifc2ids_tool_loaded, fetchVars>>

\* ids_fetch_removal.py remove_only_properties(): remove_ids_fetch_properties()
\* resets the stored value of each property the scene has and deletes its
\* definition
remove_only_properties ==
    /\ ids_fetch_server_connected' =
          IF "ids_fetch_server_connected" \in scene_props THEN FALSE
          ELSE ids_fetch_server_connected
    /\ ids_fetch_models_count' =
          IF "ids_fetch_models_count" \in scene_props THEN 0
          ELSE ids_fetch_models_count
    /\ ids_fetch_domain_models' =
          IF "ids_fetch_domain_models" \in scene_props THEN <<>>
          ELSE ids_fetch_domain_models
    /\ ids_fetch_last_download' =
          IF "ids_fetch_last_download" \in scene_props THEN <<>>
          ELSE ids_fetch_last_download
    /\ ids_fetch_last_model_name' =
          IF "ids_fetch_last_model_name" \in scene_props THEN ""
          ELSE ids_fetch_last_model_name
    /\ ids_fetch_last_model_guid' =
          IF "ids_fetch_last_model_guid" \in scene_props THEN ""
          ELSE ids_fetch_last_model_guid
    /\ scene_props' = scene_props \
          {"ids_fetch_server_selection", "ids_fetch_server_connected",
           "ids_fetch_models_count", "ids_fetch_domain_models",
           "ids_fetch_last_download", "ids_fetch_last_model_name",
           "ids_fetch_last_model_guid"}
    /\ session_last' = SessionCall("remove_only_properties", "", "")
    /\ session_again' = Again("remove_only_properties")
    /\ UNCHANGED <<bpy_types, fetch_last, fetch_request, fetch_http, fetch_filepath,
                   fetch_written, fetch_connected_once, ifc2ids_tool_loaded>>

\* ids_fetch_removal.py reset_scene_data(): the stored values are reset, the
\* definitions stay
reset_scene_data ==
    /\ ids_fetch_domain_models' =
          IF "ids_fetch_domain_models" \in scene_props THEN <<>>
          ELSE ids_fetch_domain_models
    /\ ids_fetch_server_connected' =
          IF "ids_fetch_server_connected" \in scene_props THEN FALSE
          ELSE ids_fetch_server_connected
    /\ ids_fetch_models_count' =
          IF "ids_fetch_models_count" \in scene_props THEN 0
          ELSE ids_fetch_models_count
    /\ ids_fetch_last_download' =
          IF "ids_fetch_last_download" \in scene_props THEN <<>>
          ELSE ids_fetch_last_download
    /\ ids_fetch_last_model_name' =
          IF "ids_fetch_last_model_name" \in scene_props THEN ""
          ELSE ids_fetch_last_model_name
    /\ ids_fetch_last_model_guid' =
          IF "ids_fetch_last_model_guid" \in scene_props THEN ""
          ELSE ids_fetch_last_model_guid
    /\ session_last' = SessionCall("reset_scene_data", "", "")
    /\ session_again' = Again("reset_scene_data")
    /\ UNCHANGED <<bpy_types, scene_props, fetch_last, fetch_request, fetch_http,
                   fetch_filepath, fetch_written, fetch_connected_once, ifc2ids_tool_loaded>>

\* Faulty variant: the classes are removed and the properties are kept.
force_cleanup_classes_only ==
    /\ bpy_types' = bpy_types \
          {"IDS_DomainModel_Item", "BIM_OT_connect_ids_server",
           "BIM_OT_download_domain_model_ids", "BIM_PT_ids_fetch"}
    /\ session_last' = SessionCall("ids_fetch_panel.force_cleanup", "", "")
    /\ session_again' = Again("ids_fetch_panel.force_cleanup")
    /\ UNCHANGED <<scene_props, ifc2ids_tool_loaded, fetchVars>>

\* ids_fetch_panel.py force_cleanup()
force_cleanup ==
    /\ scene_props' = unregister_properties(scene_props)
    /\ bpy_types' = bpy_types \
          {"IDS_DomainModel_Item", "BIM_OT_connect_ids_server",
           "BIM_OT_download_domain_model_ids", "BIM_PT_ids_fetch"}
    /\ session_last' = SessionCall("ids_fetch_panel.force_cleanup", "", "")
    /\ session_again' = Again("ids_fetch_panel.force_cleanup")
    /\ UNCHANGED <<ifc2ids_tool_loaded, fetchVars>>

\* The Fetch panel's operators can run: their classes are registered and the
\* Scene attributes they read are defined.
FetchPanelUsable ==
    /\ {"BIM_PT_ids_fetch", "BIM_OT_connect_ids_server",
        "BIM_OT_download_domain_model_ids"} \subseteq bpy_types
    /\ {"ids_fetch_server_selection", "ids_fetch_server_connected",
        "ids_fetch_models_count", "ids_fetch_domain_models",
        "ids_fetch_last_download", "ids_fetch_last_model_name",
        "ids_fetch_last_model_guid"} \subseteq scene_props

\* complete_ids_removal.py complete_ids_removal() after the first `done` of
\* its five removal steps (panels, operators, properties, temporary
\* properties, force sweep), and what its final check finds in that state
complete_ids_removal(types, props, done) ==
    LET all_panels ==
            {"BIM_PT_ifc2ids_converter", "BIM_PT_ifc2ids_patch", "BIM_PT_ifc2ids_results",
             "BIM_PT_ifcfromids_converter", "BIM_PT_ifcfromids_results",
             "BIM_PT_ifcfromids_validation"}
        all_operators ==
            {"BIM_OT_generate_ids_from_ifc", "BIM_OT_execute_ifc2ids_patch",
             "BIM_OT_select_ids_output_path", "BIM_OT_select_ifc2ids_output_path",
             "BIM_OT_open_ifc2ids_output", "BIM_OT_open_ifc2ids_directory",
             "BIM_OT_show_ifc2ids_summary", "BIM_OT_show_ifc2ids_summary_popup",
             "BIM_OT_load_ids_file", "BIM_OT_generate_ifc_template",
             "BIM_OT_validate_current_ifc", "BIM_OT_select_ifcfromids_output",
             "BIM_OT_show_ids_summary"}
        all_properties ==
            {"ifc2ids_specification_name", "ifc2ids_output_path",
             "ifc2ids_include_geometry", "ifc2ids_open_output", "ifc2ids_summary",
             "ifcfromids_ids_path", "ifcfromids_output_path", "ifcfromids_use_current",
             "ifcfromids_spec_count", "ifcfromids_summary"}
        temp_properties == {"bim_portal_search", "ids_validation_results", "current_ids_spec"}
        types1 == IF done >= 1 THEN types \ all_panels ELSE types
        types2 == IF done >= 2 THEN types1 \ all_operators ELSE types1
        props3 == IF done >= 3 THEN props \ all_properties ELSE props
        props4 == IF done >= 4 THEN props3 \ temp_properties ELSE props3
        types5 == IF done >= 5
                  THEN {t \in types2 : ~ \/ PyInLower("ifc2ids", t)
                                         \/ PyInLower("ifcfromids", t)
                                         \/ PyInLower("ids_converter", t)}
                  ELSE types2
        remaining_panels ==
            {t \in types5 : /\ PyInLower("ifc2ids", t) \/ PyInLower("ifcfromids", t)
                            /\ StartsWith(t, "BIM_PT")}
        remaining_operators ==
            {t \in types5 : /\ PyInLower("ifc2ids", t) \/ PyInLower("ifcfromids", t)
                            /\ StartsWith(t, "BIM_OT")}
        remaining_props ==
            {p \in props4 : PyInLower("ifc2ids", p) \/ PyInLower("ifcfromids", p)}
    IN [types |-> types5, props |-> props4,
        clean |-> remaining_panels = {} /\ remaining_operators = {} /\ remaining_props = {}]

\* complete_ids_removal() called on its own, with a console that accepts
\* every write (main() below is where a failing write is handled)
complete_ids_removal_call ==
    LET r == complete_ids_removal(bpy_types, scene_props, 5)
    IN /\ bpy_types' = r.types
       /\ scene_props' = r.props
       /\ session_last' = SessionCall("complete_ids_removal", "",
                             IF r.clean THEN "clean" ELSE "incomplete")
       /\ session_again' = Again("complete_ids_removal")
       /\ UNCHANGED ifc2ids_tool_loaded

\* complete_ids_removal.py nuclear_option_ids_cleanup()
nuclear_option_ids_cleanup(types, props) ==
    [types |-> {t \in types :
                   ~ /\ PyInLower("ids", t)
                     /\ PyIn("BIM_", t) \/ PyIn("IFC_", t) \/ PyIn("Ifc", t)
                     /\ t \notin {"BIM_PT_ids", "BIM_OT_ids"}},
     props |-> {p \in props : ~ PyInLower("ids", p)}]

nuclear_option_ids_cleanup_call ==
    LET r == nuclear_option_ids_cleanup(bpy_types, scene_props)
    IN /\ bpy_types' = r.types
       /\ scene_props' = r.props
       /\ session_last' = SessionCall("nuclear_option_ids_cleanup", "", "")
       /\ session_again' = Again("nuclear_option_ids_cleanup")
       /\ UNCHANGED ifc2ids_tool_loaded

\* complete_ids_removal.py main(): complete_ids_removal(); when it raises,
\* the handler reports the error and runs nuclear_option_ids_cleanup() on
\* what is left.  The console writes and the scans of complete_ids_removal()
\* stand outside every try block: when one of them fails the call stops
\* after `done` steps.  The handler's own console write can fail as well.
main ==
    \E console_ok \in BOOLEAN :
    \E done \in IF console_ok THEN {5} ELSE 0..5 :
    \E handler_ok \in IF console_ok THEN {TRUE} ELSE BOOLEAN :
        LET r == complete_ids_removal(bpy_types, scene_props, done)
            n == nuclear_option_ids_cleanup(r.types, r.props)
        IN /\ bpy_types' = IF console_ok \/ ~handler_ok THEN r.types ELSE n.types
           /\ scene_props' = IF console_ok \/ ~handler_ok THEN r.props ELSE n.props
           /\ session_last' =
                 IF console_ok
                 THEN SessionCall("main", "", IF r.clean THEN "clean" ELSE "incomplete")
                 ELSE IF handler_ok THEN SessionCall("main", "", "nuclear")
                 ELSE SessionCall("main", "OSError", "")
           /\ session_again' = Again("main")
           /\ UNCHANGED ifc2ids_tool_loaded

(***************************************************************************)
(* Patch engine: process_ifc_file over a model whose instances share       *)
(* property sets                                                           *)
(***************************************************************************)
\* ifcopenshell: by_type(t) and is_a(t) include the subtypes of t.
IsA(type, ifc_type) ==
    type = ifc_type \/ (ifc_type = "IfcBuildingElement" /\ type = "IfcWall")

SingleValue(name, n) ==
    [Name |-> name, kind |-> "IfcPropertySingleValue", NominalValue |-> PyInt(n)]

PropertySet(name, n) == [Name |-> name, HasProperties |-> <<SingleValue("LoadBearing", n)>>]

\* The property sets of the model, by entity id.
EnginePropertySets ==
    {<<PropertySet("Pset_A", n)>> : n \in {2, 3}} \cup
    {<<PropertySet("Pset_A", n), PropertySet(b, 2)>> : n \in {2, 3}, b \in {"Pset_A", "Pset_B"}}

MaxInstances == 2

\* The instances of the model: walls, each defined by some of the property
\* sets through IfcRelDefinesByProperties.
EngineInstances(psets) ==
    LET rels == {r \in {<<1>>, <<2>>, <<1, 2>>} : \A k \in 1..Len(r) : r[k] <= Len(psets)}
    IN {s \in SeqsUpTo([type : {"IfcWall"}, IsDefinedBy : rels], MaxInstances) : s # <<>>}

ReplaceEntry(rn, m) == [null |-> FALSE, replace_name |-> rn, replace_values |-> <<m>>]

\* What a property set's configuration can say about LoadBearing.
EnginePropertyConfigs ==
    {<<>>} \cup
    {[n \in {"LoadBearing"} |-> e] :
        e \in { ReplaceEntry(<<>>, << <<<<"2">>, <<"3">>>> >>),
                ReplaceEntry(<<>>, << <<<<"2">>, <<"3">>>>, <<<<"3">>, <<"2">>>> >>),
                ReplaceEntry(<<>>, << <<<<"2">>, <<"3">>>>, <<<<"0", "2">>, <<"2">>>> >>),
                ReplaceEntry(<<"FireRating">>, << <<<<"2">>, <<"3">>>> >>) }}

SetConfig(rn, props) == [replace_name |-> rn, props |-> props]

\* config['properties_values']: by property set name, the set's
\* 'replace_name' (<<>> = absent) and its properties' entries.
EngineSetConfigs ==
    LET forA == {SetConfig(rn, pv) : rn \in {<<>>, <<"Pset_B">>, <<"Pset_C">>},
                                     pv \in EnginePropertyConfigs}
        forB == {SetConfig(rn, pv) : rn \in {<<>>, <<"Pset_C">>},
                                     pv \in {<<>>, [n \in {"LoadBearing"} |->
                                                      ReplaceEntry(<<>>, << <<<<"2">>, <<"3">>>> >>)]}}
    IN {[n \in {"Pset_A"} |-> a] : a \in forA} \cup
       {[n \in {"Pset_A", "Pset_B"} |-> IF n = "Pset_A" THEN a ELSE b] : a \in forA, b \in forB}

\* json_config.items(): per IFC type, 'instances' (read by
\* IFC_fix_properties.py only) and 'properties_values'.
EngineConfigs ==
    {<<[ifc_type |-> "IfcWall", instances |-> n, properties_values |-> pvs]>> :
        n \in 1..MaxInstances, pvs \in EngineSetConfigs} \cup
    {<<[ifc_type |-> "IfcWall", instances |-> MaxInstances, properties_values |-> pvs],
       [ifc_type |-> "IfcBuildingElement", instances |-> MaxInstances, properties_values |-> pvs]>> :
        pvs \in EngineSetConfigs}

\* The two copies of process_ifc_file: the panel's walks every instance, the
\* command-line one walks instances[:config['instances']].
EngineVariants == {"ids_patch_panel", "IFC_fix_properties"}

\* The visits "for ifc_type, config ... for instance ... for rel_defines" makes,
\* in order: the config item and the property set met.
EngineVisits(variant, config, instances) ==
    LET by_type(c) == SelectSeq(instances, LAMBDA x : IsA(x.type, config[c].ifc_type))
        walked(c) == IF variant = "IFC_fix_properties" /\ config[c].instances < Len(by_type(c))
                     THEN SubSeq(by_type(c), 1, config[c].instances)
                     ELSE by_type(c)
        of_instance(c, inst) ==
            [r \in 1..Len(inst.IsDefinedBy) |-> [cfg |-> c, pset |-> inst.IsDefinedBy[r]]]
        of_type(c) == Concat([k \in 1..Len(walked(c)) |-> of_instance(c, walked(c)[k])])
    IN Concat([c \in 1..Len(config) |-> of_type(c)])

\* The number of assignments to wrappedValue the replace_values loop makes.
RECURSIVE replace_values_writes(_, _, _)
replace_values_writes(property_value, pairs, i) ==
    IF i > Len(pairs) THEN 0
    ELSE LET old_value == Coerce(property_value.type, pairs[i][1])
         IN IF ~old_value.ok THEN 0
            ELSE IF property_value = old_value.v
                 THEN IF Coerce(property_value.type, pairs[i][2]).ok
                      THEN 1 + replace_values_writes(property_value, pairs, i + 1)
                      ELSE 0
                 ELSE replace_values_writes(property_value, pairs, i + 1)

\* The number of assignments to wrappedValue one call of
\* handle_property_single_value makes.
property_writes(p, pv) ==
    IF /\ p.kind = "IfcPropertySingleValue" /\ p.NominalValue # PyNone
       /\ p.Name \in DOMAIN pv /\ ~pv[p.Name].null /\ pv[p.Name].replace_values # <<>>
    THEN replace_values_writes(p.NominalValue, pv[p.Name].replace_values[1], 1)
    ELSE 0

\* "for property_single_value in property_set.HasProperties": the properties
\* after the loop, the exception that ended it, and per property the calls
\* that assigned its wrappedValue.
RECURSIVE handle_properties(_, _, _, _)
handle_properties(props, writes, pv, i) ==
    IF i > Len(props) THEN [props |-> props, writes |-> writes, exc |-> ""]
    ELSE LET r == handle_property_single_value(props[i], pv)
             after == [props EXCEPT ![i] = r.prop]
             counted == [writes EXCEPT ![i] = IF property_writes(props[i], pv) > 0
                                              THEN @ + 1 ELSE @]
         IN IF r.exc # "" THEN [props |-> after, writes |-> counted, exc |-> r.exc]
            ELSE handle_properties(after, counted, pv, i + 1)

EngineIdle ==
    /\ ifc_property_sets = <<>>
    /\ ifc_instances = <<>>
    /\ json_config = <<>>
    /\ engine_variant = "ids_patch_panel"
    /\ engine_original = <<>>
    /\ engine_todo = <<>>
    /\ engine_renames = <<>>
    /\ engine_writes = <<>>
    /\ engine_pc = "idle"

\* A model, a configuration and one of the two copies, at the call.
InitEngine ==
    /\ ifc_property_sets \in EnginePropertySets
    /\ ifc_instances \in EngineInstances(ifc_property_sets)
    /\ json_config \in EngineConfigs
    /\ engine_variant \in EngineVariants
    /\ engine_original = ifc_property_sets
    /\ engine_todo = EngineVisits(engine_variant, json_config, ifc_instances)
    /\ engine_renames = [k \in 1..Len(ifc_property_sets) |-> 0]
    /\ engine_writes = [k \in 1..Len(ifc_property_sets) |->
                           [q \in 1..Len(ifc_property_sets[k].HasProperties) |-> 0]]
    /\ engine_pc = "run"

\* process_ifc_file, body of "for rel_defines in defined_by": one property
\* set met through one instance.
visit_property_set ==
    /\ engine_pc = "run"
    /\ engine_todo # <<>>
    /\ LET visit == Head(engine_todo)
           config == json_config[visit.cfg]
           property_set == ifc_property_sets[visit.pset]
           property_set_name == property_set.Name
       IN IF property_set_name \notin DOMAIN config.properties_values
          THEN /\ engine_todo' = Tail(engine_todo)
               /\ UNCHANGED <<ifc_property_sets, engine_renames, engine_writes, engine_pc>>
          ELSE LET entry == config.properties_values[property_set_name]
                   renamed == entry.replace_name # <<>>
                   handled == handle_properties(property_set.HasProperties,
                                                engine_writes[visit.pset], entry.props, 1)
               IN /\ ifc_property_sets' =
                        [ifc_property_sets EXCEPT ![visit.pset] =
                            [Name |-> IF renamed THEN entry.replace_name[1]
                                      ELSE property_set_name,
                             HasProperties |-> handled.props]]
                  /\ engine_renames' = [engine_renames EXCEPT ![visit.pset] =
                                           IF renamed THEN @ + 1 ELSE @]
                  /\ engine_writes' = [engine_writes EXCEPT ![visit.pset] = handled.writes]
                  /\ IF handled.exc # ""
                     THEN engine_pc' = "raised" /\ engine_todo' = <<>>
                     ELSE engine_pc' = "run" /\ engine_todo' = Tail(engine_todo)
    /\ UNCHANGED <<ifc_instances, json_config, engine_variant, engine_original>>

\* process_ifc_file, after the loops: ifc_model.write(output_file)
write_model ==
    /\ engine_pc = "run"
    /\ engine_todo = <<>>
    /\ engine_pc' = "done"
    /\ UNCHANGED <<ifc_property_sets, ifc_instances, json_config, engine_variant,
                   engine_original, engine_todo, engine_renames, engine_writes>>

(***************************************************************************)
(* IFCfromIDS panel: Load IDS File and Generate IFC Template               *)
(***************************************************************************)
\* IDS files the file browser may hand over, and an output path a user may
\* type into the panel.
TemplateIdsFiles == {<<"fire", ".ids">>, <<"access", ".v2", ".ids">>}
TemplateOutputs == {<<"custom", ".ifc">>}

\* A requirement facet of the loaded IDS: its class name and its value, ""
\* standing for None (the facet names no value).
TemplateFacet(class, value) == [class |-> class, value |-> value]
TemplateFacets ==
    {TemplateFacet("Material", v) : v \in {"", "*", "Concrete"}}
    \cup {TemplateFacet("Property", "")}

\* What ids.open may read: one specification for one entity name with up to
\* two requirements.
TemplateSpecification(name, requirements) ==
    [applicability |-> <<name>>, requirements |-> requirements]
TemplateDocuments ==
    {<<TemplateSpecification(name, requirements)>> :
        name \in {"IfcWall", "wall"},
        requirements \in {<<>>} \cup {<<f>> : f \in TemplateFacets}
                               \cup {<<f, g>> : f \in TemplateFacets, g \in TemplateFacets}}

\* applicability.name.upper()
upper(name) == CASE name = "IfcWall" -> "IFCWALL"
                 [] name = "wall" -> "WALL"
                 [] OTHER -> name

\* element_type.startswith('IFC')
startswith_ifc(element_type) == element_type \in {"IFCWALL"}

\* _apply_requirement: the names of the materials it creates and assigns.  A
\* Property facet has propertySet and baseName and takes the first branch;
\* every other facet has a value attribute, so getattr never falls back on
\* its default.
apply_requirement(requirement) ==
    IF requirement.class = "Property" THEN <<>>
    ELSE IF requirement.class = "Material"
    THEN LET material_name == requirement.value
         IN IF material_name # "" /\ material_name # "*" THEN <<material_name>> ELSE <<>>
    ELSE <<>>

\* "for requirement in spec.requirements" of _create_template_element
RECURSIVE apply_requirements(_)
apply_requirements(requirements) ==
    IF requirements = <<>> THEN <<>>
    ELSE apply_requirement(Head(requirements)) \o apply_requirements(Tail(requirements))

\* _process_specification: the number of template elements created and the
\* materials created for them.
RECURSIVE process_applicability(_, _)
process_applicability(names, requirements) ==
    IF names = <<>> THEN [elements |-> 0, materials |-> <<>>]
    ELSE LET rest == process_applicability(Tail(names), requirements)
         IN IF Head(names) # "" /\ startswith_ifc(upper(Head(names)))
            THEN [elements |-> rest.elements + 1,
                  materials |-> apply_requirements(requirements) \o rest.materials]
            ELSE rest

RECURSIVE process_specifications(_)
process_specifications(specifications) ==
    IF specifications = <<>> THEN [elements |-> 0, materials |-> <<>>]
    ELSE LET first == process_applicability(Head(specifications).applicability,
                                            Head(specifications).requirements)
             rest == process_specifications(Tail(specifications))
         IN [elements |-> first.elements + rest.elements,
             materials |-> first.materials \o rest.materials]

TemplateCall(op, result, document, new_file, written, elements, materials) ==
    [op |-> op, result |-> result, document |-> document, new_file |-> new_file,
     written |-> written, elements |-> elements, materials |-> materials]

TemplateIdle ==
    /\ ifcfromids_ids_path = <<>>
    /\ ifcfromids_output_path = <<>>
    /\ ifcfromids_use_current = FALSE
    /\ ifcfromids_spec_count = 0
    /\ ifc_store_file = FALSE
    /\ template_files = {}
    /\ template_output_by_user = FALSE
    /\ template_last = TemplateCall("", "", <<>>, FALSE, {}, 0, <<>>)

\* BIM_OT_load_ids_file.execute
template_load_ids_file ==
    \E filepath \in TemplateIdsFiles, open_ok \in BOOLEAN,
       spec_count \in {Len(ids_spec) : ids_spec \in TemplateDocuments} :
        /\ IF open_ok
           THEN /\ ifcfromids_ids_path' = filepath
                /\ ifcfromids_spec_count' = spec_count
                /\ template_last' = TemplateCall("load_ids_file", "FINISHED", <<>>, FALSE, {}, 0, <<>>)
           ELSE /\ template_last' = TemplateCall("load_ids_file", "CANCELLED", <<>>, FALSE, {}, 0, <<>>)
                /\ UNCHANGED <<ifcfromids_ids_path, ifcfromids_spec_count>>
        /\ UNCHANGED <<ifcfromids_output_path, ifcfromids_use_current, ifc_store_file,
                       template_files, template_output_by_user>>

\* The user edits the "Output" field or the "Add to Current IFC" box of the
\* panel, or Bonsai opens or closes a model.
template_edit ==
    /\ \E path \in {<<>>} \cup TemplateOutputs, use_current \in BOOLEAN, store \in BOOLEAN :
          \/ /\ ifcfromids_output_path' = path
             /\ template_output_by_user' = (path # <<>>)
             /\ UNCHANGED <<ifcfromids_use_current, ifc_store_file>>
          \/ /\ ifcfromids_use_current' = use_current
             /\ UNCHANGED <<ifcfromids_output_path, template_output_by_user, ifc_store_file>>
          \/ /\ ifc_store_file' = store
             /\ UNCHANGED <<ifcfromids_output_path, template_output_by_user, ifcfromids_use_current>>
    /\ template_last' = TemplateCall("edit", "", <<>>, FALSE, {}, 0, <<>>)
    /\ UNCHANGED <<ifcfromids_ids_path, ifcfromids_spec_count, template_files>>

\* BIM_OT_generate_ifc_template.execute, enabled by poll: open_ok is ids.open
\* succeeding, write_ok is ifc_file.write succeeding.
generate_ifc_template ==
    /\ ifcfromids_ids_path # <<>>
    /\ \E open_ok, write_ok \in BOOLEAN, ids_spec \in TemplateDocuments :
          LET augment == ifcfromids_use_current /\ ifc_store_file
              created == process_specifications(ids_spec)
              save_path == IF ifcfromids_output_path # <<>> THEN ifcfromids_output_path
                           ELSE with_suffix(ifcfromids_ids_path, ".ifc")
          IN IF ~open_ok
             THEN /\ template_last' = TemplateCall("generate_ifc_template", "CANCELLED", <<>>,
                                                   FALSE, {}, 0, <<>>)
                  /\ UNCHANGED <<ifcfromids_output_path, template_files>>
             ELSE IF augment
             THEN /\ template_last' = TemplateCall("generate_ifc_template", "FINISHED", ids_spec,
                                                   FALSE, {}, created.elements, created.materials)
                  /\ UNCHANGED <<ifcfromids_output_path, template_files>>
             ELSE IF ~write_ok
             THEN /\ template_last' = TemplateCall("generate_ifc_template", "CANCELLED", ids_spec,
                                                   TRUE, {}, created.elements, created.materials)
                  /\ UNCHANGED <<ifcfromids_output_path, template_files>>
             ELSE /\ template_files' = template_files \cup {save_path}
                  /\ ifcfromids_output_path' = save_path
                  /\ template_last' = TemplateCall("generate_ifc_template", "FINISHED", ids_spec,
                                                   TRUE, {save_path}, created.elements,
                                                   created.materials)
    /\ UNCHANGED <<ifcfromids_ids_path, ifcfromids_use_current, ifcfromids_spec_count,
                   ifc_store_file, template_output_by_user>>

(***************************************************************************)
(* Specifications: one per component                                       *)
(***************************************************************************)
InitFixSpec == InitFix /\ PatchIdle /\ ParseIdle /\ MatchIdle /\ RecipeIdle /\ FetchIdle /\ SessionIdle /\ EngineIdle /\ TemplateIdle
NextFix == HandleProperty /\ UNCHANGED <<patchVars, parseVars, matchVars, recipeVars, fetchVars, sessionVars, engineVars, templateVars>>
SpecFix == InitFixSpec /\ [][NextFix]_vars

InitPatchSpec == FixIdle /\ PatchIdle /\ ParseIdle /\ MatchIdle /\ RecipeIdle /\ FetchIdle /\ SessionIdle /\ EngineIdle /\ TemplateIdle
NextPatch ==
    \/ load_ifc_file /\ UNCHANGED <<fixVars, parseVars, matchVars, recipeVars, fetchVars, sessionVars, engineVars, templateVars>>
    \/ load_ids_file /\ UNCHANGED <<fixVars, parseVars, matchVars, recipeVars, fetchVars, sessionVars, engineVars, templateVars>>
    \/ patch_ifc_guard /\ UNCHANGED <<fixVars, parseVars, matchVars, recipeVars, fetchVars, sessionVars, engineVars, templateVars>>
    \/ patch_ifc_try /\ UNCHANGED <<fixVars, parseVars, matchVars, recipeVars, fetchVars, sessionVars, engineVars, templateVars>>
    \/ save_fixed_ifc /\ UNCHANGED <<fixVars, parseVars, matchVars, recipeVars, fetchVars, sessionVars, engineVars, templateVars>>
SpecPatch == InitPatchSpec /\ [][NextPatch]_vars

\* The three Patch Panel scripts over the Scene attributes they share: the
\* last script run decides which Patch operator is registered.
InitPatchVariantsSpec == FixIdle /\ PatchIdle /\ ParseIdle /\ MatchIdle /\ RecipeIdle /\ FetchIdle /\ SessionIdle /\ EngineIdle /\ TemplateIdle
NextPatchVariants ==
    \/ load_ifc_file /\ UNCHANGED <<fixVars, parseVars, matchVars, recipeVars, fetchVars, sessionVars, engineVars, templateVars>>
    \/ load_ids_file /\ UNCHANGED <<fixVars, parseVars, matchVars, recipeVars, fetchVars, sessionVars, engineVars, templateVars>>
    \/ patch_ifc_guard /\ UNCHANGED <<fixVars, parseVars, matchVars, recipeVars, fetchVars, sessionVars, engineVars, templateVars>>
    \/ patch_ifc_try /\ UNCHANGED <<fixVars, parseVars, matchVars, recipeVars, fetchVars, sessionVars, engineVars, templateVars>>
    \/ main_button_patch_ifc /\ UNCHANGED <<fixVars, parseVars, matchVars, recipeVars, fetchVars, sessionVars, engineVars, templateVars>>
    \/ main_button_active_patch_ifc /\ UNCHANGED <<fixVars, parseVars, matchVars, recipeVars, fetchVars, sessionVars, engineVars, templateVars>>
SpecPatchVariants == InitPatchVariantsSpec /\ [][NextPatchVariants]_vars

InitParseSpec == FixIdle /\ PatchIdle /\ InitParse /\ MatchIdle /\ RecipeIdle /\ FetchIdle /\ SessionIdle /\ EngineIdle /\ TemplateIdle
NextParse == ParseIds /\ UNCHANGED <<fixVars, patchVars, matchVars, recipeVars, fetchVars, sessionVars, engineVars, templateVars>>
SpecParse == InitParseSpec /\ [][NextParse]_vars

InitMatchSpec == FixIdle /\ PatchIdle /\ ParseIdle /\ MatchIdle /\ RecipeIdle /\ FetchIdle /\ SessionIdle /\ EngineIdle /\ TemplateIdle
NextMatch ==
    \/ load_file1 /\ UNCHANGED <<fixVars, patchVars, parseVars, recipeVars, fetchVars, sessionVars, engineVars, templateVars>>
    \/ load_file2 /\ UNCHANGED <<fixVars, patchVars, parseVars, recipeVars, fetchVars, sessionVars, engineVars, templateVars>>
    \/ analyze_ids /\ UNCHANGED <<fixVars, patchVars, parseVars, recipeVars, fetchVars, sessionVars, engineVars, templateVars>>
    \/ toggle_node /\ UNCHANGED <<fixVars, patchVars, parseVars, recipeVars, fetchVars, sessionVars, engineVars, templateVars>>
    \/ match_ids /\ UNCHANGED <<fixVars, patchVars, parseVars, recipeVars, fetchVars, sessionVars, engineVars, templateVars>>
SpecMatch == InitMatchSpec /\ [][NextMatch]_vars

InitRecipeSpec == FixIdle /\ PatchIdle /\ ParseIdle /\ MatchIdle /\ InitRecipe /\ FetchIdle /\ SessionIdle /\ EngineIdle /\ TemplateIdle
NextRecipe ==
    \/ analyze_element /\ UNCHANGED <<fixVars, patchVars, parseVars, matchVars, fetchVars, sessionVars, engineVars, templateVars>>
    \/ create_ids_specification /\ UNCHANGED <<fixVars, patchVars, parseVars, matchVars, fetchVars, sessionVars, engineVars, templateVars>>
SpecRecipe == InitRecipeSpec /\ [][NextRecipe]_vars

InitRecipeRunSpec == FixIdle /\ PatchIdle /\ ParseIdle /\ MatchIdle /\ InitRecipeRun /\ FetchIdle /\ SessionIdle /\ EngineIdle /\ TemplateIdle
NextRecipeRun ==
    \/ analyze_associated_element /\ UNCHANGED <<fixVars, patchVars, parseVars, matchVars, fetchVars, sessionVars, engineVars, templateVars>>
    \/ create_ids_specification /\ UNCHANGED <<fixVars, patchVars, parseVars, matchVars, fetchVars, sessionVars, engineVars, templateVars>>
    \/ save_ids_file /\ UNCHANGED <<fixVars, patchVars, parseVars, matchVars, fetchVars, sessionVars, engineVars, templateVars>>
SpecRecipeRun == InitRecipeRunSpec /\ [][NextRecipeRun]_vars

NextRecipePromotion ==
    \/ analyze_wide_element /\ UNCHANGED <<fixVars, patchVars, parseVars, matchVars, fetchVars, sessionVars, engineVars, templateVars>>
    \/ create_ids_specification /\ UNCHANGED <<fixVars, patchVars, parseVars, matchVars, fetchVars, sessionVars, engineVars, templateVars>>
    \/ save_ids_file /\ UNCHANGED <<fixVars, patchVars, parseVars, matchVars, fetchVars, sessionVars, engineVars, templateVars>>
SpecRecipePromotion == InitRecipeSpec /\ [][NextRecipePromotion]_vars

InitRecipeArgsSpec == FixIdle /\ PatchIdle /\ ParseIdle /\ MatchIdle /\ InitRecipeArgs /\ FetchIdle /\ SessionIdle /\ EngineIdle /\ TemplateIdle
NextRecipeArgs ==
    \/ recipe_execute /\ UNCHANGED <<fixVars, patchVars, parseVars, matchVars, fetchVars, sessionVars, engineVars, templateVars>>
    \/ recipe_main /\ UNCHANGED <<fixVars, patchVars, parseVars, matchVars, fetchVars, sessionVars, engineVars, templateVars>>
SpecRecipeArgs == InitRecipeArgsSpec /\ [][NextRecipeArgs]_vars

InitFetchSpec == FixIdle /\ PatchIdle /\ ParseIdle /\ MatchIdle /\ RecipeIdle /\ FetchIdle /\ SessionIdle /\ EngineIdle /\ TemplateIdle
NextFetch ==
    \/ connect_ids_server /\ UNCHANGED <<fixVars, patchVars, parseVars, matchVars, recipeVars, sessionVars, engineVars, templateVars>>
    \/ panel_download /\ UNCHANGED <<fixVars, patchVars, parseVars, matchVars, recipeVars, sessionVars, engineVars, templateVars>>
    \/ script_download /\ UNCHANGED <<fixVars, patchVars, parseVars, matchVars, recipeVars, sessionVars, engineVars, templateVars>>
SpecFetch == InitFetchSpec /\ [][NextFetch]_vars

\* The portal's two clients: the Fetch panel's operators and the command-line
\* connector.
InitRequestsSpec == FixIdle /\ PatchIdle /\ ParseIdle /\ MatchIdle /\ RecipeIdle /\ FetchIdle /\ SessionIdle /\ EngineIdle /\ TemplateIdle
NextRequests ==
    \/ connect_ids_server /\ UNCHANGED <<fixVars, patchVars, parseVars, matchVars, recipeVars, sessionVars, engineVars, templateVars>>
    \/ panel_download /\ UNCHANGED <<fixVars, patchVars, parseVars, matchVars, recipeVars, sessionVars, engineVars, templateVars>>
    \/ script_download /\ UNCHANGED <<fixVars, patchVars, parseVars, matchVars, recipeVars, sessionVars, engineVars, templateVars>>
    \/ connector_main /\ UNCHANGED <<fixVars, patchVars, parseVars, matchVars, recipeVars, sessionVars, engineVars, templateVars>>
SpecRequests == InitRequestsSpec /\ [][NextRequests]_vars

\* The Fetch panel over one session: its registration, its operators while
\* they are registered, and the removal script's functions.
InitFetchLifecycleSpec == FixIdle /\ PatchIdle /\ ParseIdle /\ MatchIdle /\ RecipeIdle /\ FetchIdle /\ SessionIdle /\ EngineIdle /\ TemplateIdle
NextFetchLifecycle ==
    \/ ids_fetch_register /\ UNCHANGED <<fixVars, patchVars, parseVars, matchVars, recipeVars, fetchVars, engineVars, templateVars>>
    \/ ids_fetch_unregister /\ UNCHANGED <<fixVars, patchVars, parseVars, matchVars, recipeVars, fetchVars, engineVars, templateVars>>
    \/ force_cleanup /\ UNCHANGED <<fixVars, patchVars, parseVars, matchVars, recipeVars, engineVars, templateVars>>
    \/ force_remove_ids_fetch /\ UNCHANGED <<fixVars, patchVars, parseVars, matchVars, recipeVars, engineVars, templateVars>>
    \/ safe_remove_ids_fetch /\ UNCHANGED <<fixVars, patchVars, parseVars, matchVars, recipeVars, engineVars, templateVars>>
    \/ remove_only_ui /\ UNCHANGED <<fixVars, patchVars, parseVars, matchVars, recipeVars, engineVars, templateVars>>
    \/ remove_only_properties /\ UNCHANGED <<fixVars, patchVars, parseVars, matchVars, recipeVars, engineVars, templateVars>>
    \/ reset_scene_data /\ UNCHANGED <<fixVars, patchVars, parseVars, matchVars, recipeVars, engineVars, templateVars>>
    \/ FetchPanelUsable /\ connect_ids_server /\ UNCHANGED <<fixVars, patchVars, parseVars, matchVars, recipeVars, sessionVars, engineVars, templateVars>>
    \/ FetchPanelUsable /\ panel_download /\ UNCHANGED <<fixVars, patchVars, parseVars, matchVars, recipeVars, sessionVars, engineVars, templateVars>>
SpecFetchLifecycle == InitFetchLifecycleSpec /\ [][NextFetchLifecycle]_vars

InitSessionSpec == FixIdle /\ PatchIdle /\ ParseIdle /\ MatchIdle /\ RecipeIdle /\ FetchIdle /\ SessionIdle /\ EngineIdle /\ TemplateIdle
NextSession ==
    \/ ids_patch_register /\ UNCHANGED <<fixVars, patchVars, parseVars, matchVars, recipeVars, fetchVars, engineVars, templateVars>>
    \/ ids_patch_unregister /\ UNCHANGED <<fixVars, patchVars, parseVars, matchVars, recipeVars, fetchVars, engineVars, templateVars>>
    \/ ids_fetch_register /\ UNCHANGED <<fixVars, patchVars, parseVars, matchVars, recipeVars, fetchVars, engineVars, templateVars>>
    \/ ids_fetch_unregister /\ UNCHANGED <<fixVars, patchVars, parseVars, matchVars, recipeVars, fetchVars, engineVars, templateVars>>
    \/ ifc2ids_tool_load /\ UNCHANGED <<fixVars, patchVars, parseVars, matchVars, recipeVars, fetchVars, engineVars, templateVars>>
    \/ ifc2ids_tool_register /\ UNCHANGED <<fixVars, patchVars, parseVars, matchVars, recipeVars, fetchVars, engineVars, templateVars>>
    \/ ifc2ids_tool_unregister /\ UNCHANGED <<fixVars, patchVars, parseVars, matchVars, recipeVars, fetchVars, engineVars, templateVars>>
    \/ ifcfromids_register /\ UNCHANGED <<fixVars, patchVars, parseVars, matchVars, recipeVars, fetchVars, engineVars, templateVars>>
    \/ ifcfromids_unregister /\ UNCHANGED <<fixVars, patchVars, parseVars, matchVars, recipeVars, fetchVars, engineVars, templateVars>>
    \/ clean_ids_patch /\ UNCHANGED <<fixVars, parseVars, matchVars, recipeVars, fetchVars, engineVars, templateVars>>
    \/ force_remove_ids_fetch /\ UNCHANGED <<fixVars, patchVars, parseVars, matchVars, recipeVars, engineVars, templateVars>>
    \/ safe_remove_ids_fetch /\ UNCHANGED <<fixVars, patchVars, parseVars, matchVars, recipeVars, engineVars, templateVars>>
    \/ complete_ids_removal_call /\ UNCHANGED <<fixVars, patchVars, parseVars, matchVars, recipeVars, fetchVars, engineVars, templateVars>>
    \/ nuclear_option_ids_cleanup_call /\ UNCHANGED <<fixVars, patchVars, parseVars, matchVars, recipeVars, fetchVars, engineVars, templateVars>>
    \/ main /\ UNCHANGED <<fixVars, patchVars, parseVars, matchVars, recipeVars, fetchVars, engineVars, templateVars>>
SpecSession == InitSessionSpec /\ [][NextSession]_vars

InitEngineSpec == FixIdle /\ PatchIdle /\ ParseIdle /\ MatchIdle /\ RecipeIdle /\ FetchIdle /\ SessionIdle /\ InitEngine /\ TemplateIdle
NextEngine ==
    \/ visit_property_set /\ UNCHANGED <<fixVars, patchVars, parseVars, matchVars, recipeVars, fetchVars, sessionVars, templateVars>>
    \/ write_model /\ UNCHANGED <<fixVars, patchVars, parseVars, matchVars, recipeVars, fetchVars, sessionVars, templateVars>>
SpecEngine == InitEngineSpec /\ [][NextEngine]_vars

InitTemplateSpec == FixIdle /\ PatchIdle /\ ParseIdle /\ MatchIdle /\ RecipeIdle /\ FetchIdle /\ SessionIdle /\ EngineIdle /\ TemplateIdle
NextTemplate ==
    \/ template_load_ids_file /\ UNCHANGED <<fixVars, patchVars, parseVars, matchVars, recipeVars, fetchVars, sessionVars, engineVars>>
    \/ template_edit /\ UNCHANGED <<fixVars, patchVars, parseVars, matchVars, recipeVars, fetchVars, sessionVars, engineVars>>
    \/ generate_ifc_template /\ UNCHANGED <<fixVars, patchVars, parseVars, matchVars, recipeVars, fetchVars, sessionVars, engineVars>>
SpecTemplate == InitTemplateSpec /\ [][NextTemplate]_vars

(***************************************************************************)
(* Claims                                                                  *)
(***************************************************************************)
C1_Applies ==
    /\ fix_pc = "done"
    /\ fix_exc = ""
    /\ property_before.kind = "IfcPropertySingleValue"
    /\ property_before.NominalValue # PyNone
    /\ property_before.Name \in DOMAIN properties_values
    /\ ~properties_values[property_before.Name].null
    /\ properties_values[property_before.Name].replace_values # <<>>

\* The configured pairs whose old value, coerced to the type of v, equals v.
C1_Matching(v, pairs) ==
    {i \in 1..Len(pairs) : Coerce(v.type, pairs[i][1]).ok /\ Coerce(v.type, pairs[i][1]).v = v}

\* C1: when a single-value property with a literal v and a configured
\* replace_values map has been visited (and the visit returned), the literal
\* keeps the runtime type of v; if no configured old value, coerced to that
\* type, equals v the literal is still v; otherwise it is the coerced new
\* value of a matching pair (the last one in the map's order).
C1_TypeCoercedReplacement ==
    C1_Applies =>
        LET v == property_before.NominalValue
            pairs == properties_values[property_before.Name].replace_values[1]
            matching == C1_Matching(v, pairs)
            after == property_single_value.NominalValue
        IN /\ after.type = v.type
           /\ matching = {} => after = v
           /\ matching # {} => after = Coerce(v.type, pairs[Max(matching)][2]).v

\* Integer 2 configured with {"2": "3"} has become integer 3.
C1_Witness ==
    /\ C1_Applies
    /\ property_before.NominalValue = PyInt(2)
    /\ properties_values[property_before.Name].replace_values = <<(<< <<(<<"2">>), (<<"3">>)>> >>)>>
    /\ property_single_value.NominalValue = PyInt(3)

\* C2: the path process_ifc_file writes differs from its input path.
C2_OutputDiffersFromInput ==
    patch_written # <<>> => patch_written[1].dst # patch_written[1].src

\* C3: for an input path ending in ".ifc" the written path is the input with
\* only that trailing suffix replaced by "_fixed.ifc", and a finished Patch
\* action records exactly that path as ids_patch_output_file.
C3_SiblingFixedPath ==
    (patch_written # <<>> /\ EndsWith(patch_written[1].src, DotIfc)) =>
        LET src == patch_written[1].src
            sibling == SubSeq(src, 1, Len(src) - Len(DotIfc)) \o FixedIfc
        IN /\ patch_written[1].dst = sibling
           /\ (patch_last.op = "patch_ifc" /\ patch_last.result = "FINISHED")
                 => ids_patch_output_file = sibling

\* C4: a Patch action in which reading the configuration, opening or patching
\* the model, or writing the output raised returns CANCELLED with an ERROR
\* report carrying the error, and leaves ids_patch_output_file and
\* ids_patch_has_output as they were.
C4_FailedPatchKeepsOutput ==
    [][(patch_last'.op = "patch_ifc" /\ patch_last'.error # "")
          => /\ patch_last'.result = "CANCELLED"
             /\ patch_last'.level = "ERROR"
             /\ patch_last'.error \in PatchErrors
             /\ ids_patch_output_file' = ids_patch_output_file
             /\ ids_patch_has_output' = ids_patch_has_output]_vars

\* A Patch action failed after an earlier one had produced an output.
C4_Witness ==
    /\ patch_last.op = "patch_ifc"
    /\ patch_last.error # ""
    /\ ids_patch_has_output
    /\ ids_patch_output_file # <<>>

\* The specifications of the parsed document that parse_ids does not skip.
AppliedSpecs == {i \in 1..Len(ids_doc.specifications) :
                    /\ ids_doc.specifications[i].applicability # Absent
                    /\ ids_doc.specifications[i].requirements # Absent}

\* The key the specification text gives an applicability entity.
ClaimedKey(e) == IF e.predefined = "" THEN e.name ELSE e.name \o "." \o e.predefined

\* <<i, j>>: the j-th entity of the applied specification i.
AppliedEntities ==
    UNION {{<<i, j>> : j \in 1..Len(ids_doc.specifications[i].applicability[1])} : i \in AppliedSpecs}

KeyAt(ij) == ClaimedKey(ids_doc.specifications[ij[1]].applicability[1][ij[2]])

AppliedKeys == {KeyAt(ij) : ij \in AppliedEntities}

Occurrences(key) == {ij \in AppliedEntities : KeyAt(ij) = key}

\* The applied specifications with an entity of this key.
SpecsApplying(key) == {ij[1] : ij \in Occurrences(key)}

EntryOf(result, key) == result[IndexOf(result, "key", key)]

\* The non-empty property sets, and the <<set, base name>> pairs with both
\* parts non-empty, among the property requirements of specification i.
RequiredSets(i) ==
    LET props == ids_doc.specifications[i].requirements[1]
    IN {props[k].propertySet : k \in 1..Len(props)} \ {""}
RequiredPairs(i) ==
    LET props == ids_doc.specifications[i].requirements[1]
    IN {<<props[k].propertySet, props[k].baseName>> :
           k \in {n \in 1..Len(props) : props[n].propertySet # "" /\ props[n].baseName # ""}}

\* The property sets and the placeholders of a map entry.
SetsOf(entry) == {entry.properties[q].propertySet : q \in 1..Len(entry.properties)}
PairsOf(entry) ==
    UNION {{<<entry.properties[q].propertySet, entry.properties[q].nodes[n].baseName>> :
               n \in 1..Len(entry.properties[q].nodes)} : q \in 1..Len(entry.properties)}
PlaceholderCount(entry) ==
    Cardinality(UNION {{<<q, n>> : n \in 1..Len(entry.properties[q].nodes)} :
                          q \in 1..Len(entry.properties)})

\* C5: the keys of the Entity Requirement Map are exactly the keys of the
\* entities under the applicability of the specifications that are not
\* skipped: name.predefinedType when the predefined type is non-empty, the
\* name alone otherwise.
C5_EntityKeyConstruction ==
    parse_pc = "done" =>
        {parse_result[k].key : k \in 1..Len(parse_result)} = AppliedKeys

\* Both kinds of key in one map.
C5_Witness ==
    /\ parse_pc = "done"
    /\ \E k \in 1..Len(parse_result) : parse_result[k].key = "IFCWALL.SOLIDWALL"
    /\ \E k \in 1..Len(parse_result) : parse_result[k].key = "IFCWALL"

\* C6: every entity key has exactly one map entry, carrying the name of the
\* first specification that applies to it, and one warning is printed for
\* every later occurrence of the key; the parse returns.
C6_DuplicateKeyTolerance ==
    parse_pc = "done" =>
        /\ \A key \in AppliedKeys :
              /\ Cardinality({k \in 1..Len(parse_result) : parse_result[k].key = key}) = 1
              /\ \A i \in SpecsApplying(key) :
                    (\A other \in SpecsApplying(key) : i <= other)
                    => EntryOf(parse_result, key).name = ids_doc.specifications[i].name
              /\ Cardinality({w \in 1..Len(parse_warnings) : parse_warnings[w] = key})
                    = Cardinality(Occurrences(key)) - 1
        /\ \A w \in 1..Len(parse_warnings) : parse_warnings[w] \in AppliedKeys

\* Two specifications apply to IFCDOOR: one entry, the first name, a warning.
C6_Witness ==
    /\ parse_pc = "done"
    /\ Cardinality(SpecsApplying("IFCDOOR")) = 2
    /\ EntryOf(parse_result, "IFCDOOR").name = SpecName(1)
    /\ parse_warnings # <<>>

\* The map as it was before the last specification of the document.
BeforeLast ==
    parse_ids([ids_doc EXCEPT !.specifications =
                  SubSeq(@, 1, Len(ids_doc.specifications) - 1)]).result

LastSpec == Len(ids_doc.specifications)

\* C7 as stated: an entry that exists when a later specification is
\* processed is the same entry afterwards (name and placeholders).
C7_EntryRetainedUnchanged ==
    (parse_pc = "done" /\ LastSpec >= 1) =>
        \A k \in 1..Len(BeforeLast) :
            EntryOf(parse_result, BeforeLast[k].key) = BeforeLast[k]

\* C7 as amended: an entry that exists when a later specification is
\* processed keeps its key, its owning specification name and every
\* property set and placeholder it had, in their order; when the later
\* specification applies to the key, the non-empty property sets and base
\* names of its requirements are merged into the entry, and nothing else is.
C7_EntryRetainedAndMerged ==
    (parse_pc = "done" /\ LastSpec >= 1) =>
        \A k \in 1..Len(BeforeLast) :
            LET before == BeforeLast[k]
                after == EntryOf(parse_result, before.key)
                applies == LastSpec \in SpecsApplying(before.key)
            IN /\ after.key = before.key
               /\ after.name = before.name
               /\ Len(before.properties) <= Len(after.properties)
               /\ \A q \in 1..Len(before.properties) :
                     /\ after.properties[q].propertySet = before.properties[q].propertySet
                     /\ Len(before.properties[q].nodes) <= Len(after.properties[q].nodes)
                     /\ SubSeq(after.properties[q].nodes, 1, Len(before.properties[q].nodes))
                           = before.properties[q].nodes
               /\ SetsOf(after) = SetsOf(before) \cup (IF applies THEN RequiredSets(LastSpec) ELSE {})
               /\ PairsOf(after) = PairsOf(before) \cup (IF applies THEN RequiredPairs(LastSpec) ELSE {})

\* A later specification has added placeholders to an entry of the first.
C7_Witness ==
    /\ parse_pc = "done"
    /\ LastSpec = 2
    /\ \E k \in 1..Len(BeforeLast) :
          /\ BeforeLast[k].name = SpecName(1)
          /\ EntryOf(parse_result, BeforeLast[k].key).name = SpecName(1)
          /\ PlaceholderCount(EntryOf(parse_result, BeforeLast[k].key))
                > PlaceholderCount(BeforeLast[k])

\* C8 as stated: the entry of an entity has the property sets and the
\* placeholders of the requirements of the specification that applies to it.
C8_ScopedToOneSpecification ==
    parse_pc = "done" =>
        \A ij \in AppliedEntities :
            LET entry == EntryOf(parse_result, KeyAt(ij))
            IN /\ SetsOf(entry) = RequiredSets(ij[1])
               /\ PairsOf(entry) = RequiredPairs(ij[1])

\* C8 as amended: the entry of an entity key has exactly one key per distinct
\* non-empty propertySet among the property requirements of all the
\* specifications that apply to that key, each holding exactly one empty
\* placeholder per distinct non-empty baseName listed for that set in those
\* specifications; an empty propertySet contributes nothing.
C8_PropertySetScoping ==
    parse_pc = "done" =>
        \A key \in AppliedKeys :
            LET entry == EntryOf(parse_result, key)
            IN /\ SetsOf(entry) = UNION {RequiredSets(i) : i \in SpecsApplying(key)}
               /\ PairsOf(entry) = UNION {RequiredPairs(i) : i \in SpecsApplying(key)}
               /\ Len(entry.properties) = Cardinality(SetsOf(entry))
               /\ PlaceholderCount(entry) = Cardinality(PairsOf(entry))
               /\ \A q \in 1..Len(entry.properties) :
                     \A n \in 1..Len(entry.properties[q].nodes) :
                         entry.properties[q].nodes[n].node = {}

\* Pset_WallCommon/LoadBearing and Pset_WallCommon/IsExternal: one key with
\* two placeholders.
C8_Witness ==
    /\ parse_pc = "done"
    /\ LastSpec = 1
    /\ AppliedKeys = {"IFCWALL"}
    /\ LET entry == EntryOf(parse_result, "IFCWALL")
       IN /\ Len(entry.properties) = 1
          /\ entry.properties[1].propertySet = "Pset_WallCommon"
          /\ Len(entry.properties[1].nodes) = 2
          /\ entry.properties[1].nodes[1].baseName = "LoadBearing"
          /\ entry.properties[1].nodes[2].baseName = "IsExternal"

\* C9 as stated: when Match is invoked with a node of the tree selected, it
\* finishes and reports the key of the entity the node was created for (for
\* an Entity node, its own name).
C9_MatchReportsOwner ==
    (/\ match_last.op = "match_ids"
     /\ simple_selected_index >= 0
     /\ simple_selected_index < Len(simple_tree_nodes))
    => /\ match_last.result = "FINISHED"
       /\ simple_has_match_results
       /\ simple_matched_entity = tree_owner[simple_selected_index + 1]
       /\ simple_match_results = tree_owner[simple_selected_index + 1]

\* The names of the generated specifications.
SpecificationNames == {ids_specifications[i].name : i \in 1..Len(ids_specifications)}

\* C10: an element type observed fewer than 2 times gets no
\* "<Type> Requirements" specification, a property set used fewer than 3
\* times gets no "<PropertySet> Properties" specification, and a property
\* observed fewer than 2 times within a promoted set is not a requirement.
C10_AnalyzerThresholds ==
    recipe_pc = "done" =>
        /\ \A t \in ElementTypes :
              seen_types[t] < 2 => (t \o " Requirements") \notin SpecificationNames
        /\ \A p \in PsetNames :
              seen_psets[p] < 3 => (p \o " Properties") \notin SpecificationNames
        /\ \A p \in PsetNames : \A i \in 1..Len(ids_specifications) :
              ids_specifications[i].name = p \o " Properties" =>
                 \A r \in 1..Len(ids_specifications[i].requirements) :
                     seen_props[<<p, ids_specifications[i].requirements[r].name>>] >= 2

\* A type seen once, a set used twice, and a promoted set with a property
\* seen once, in one generated document.
C10_Witness ==
    /\ recipe_pc = "done"
    /\ seen_types["IfcDoor"] = 1
    /\ seen_types["IfcWall"] >= 2
    /\ "IfcWall Requirements" \in SpecificationNames
    /\ seen_psets["Pset_Custom"] = 2
    /\ seen_psets["Pset_WallCommon"] >= 3
    /\ "Pset_WallCommon Properties" \in SpecificationNames
    /\ seen_props[<<"Pset_WallCommon", "IsExternal">>] = 1
    /\ seen_props[<<"Pset_WallCommon", "LoadBearing">>] >= 2

\* The requirement of the generated "<p> Properties" specification that names
\* property n, as a set (empty when there is none).
PromotedRequirements(p, n) ==
    UNION {{ids_specifications[i].requirements[r] :
               r \in {k \in 1..Len(ids_specifications[i].requirements) :
                         ids_specifications[i].requirements[k].name = n}} :
           i \in {j \in 1..Len(ids_specifications) :
                     ids_specifications[j].name = p \o " Properties"}}

\* C11: every property requirement of a promoted property-set specification
\* is "required" exactly when twice the property's count is at least the
\* set's usage count (at least 50 %, exactly half included), and "optional"
\* otherwise.
C11_CardinalityDerivation ==
    recipe_pc = "done" =>
        \A p \in PsetNames, n \in RecipePropNames :
            \A req \in PromotedRequirements(p, n) :
                /\ req.facet = "Property"
                /\ req.propertySet = p
                /\ req.cardinality \in {"required", "optional"}
                /\ req.cardinality = "required" <=> 2 * seen_props[<<p, n>>] >= seen_psets[p]

\* A set used 5 times: LoadBearing in 2 of them is optional, IsExternal in 3
\* or more is required.
C11_Witness ==
    /\ recipe_pc = "done"
    /\ seen_psets["Pset_WallCommon"] = 5
    /\ seen_props[<<"Pset_WallCommon", "LoadBearing">>] = 2
    /\ seen_props[<<"Pset_WallCommon", "IsExternal">>] >= 3
    /\ \E req \in PromotedRequirements("Pset_WallCommon", "LoadBearing") : req.cardinality = "optional"
    /\ \E req \in PromotedRequirements("Pset_WallCommon", "IsExternal") : req.cardinality = "required"

\* C12: whenever the model-list request of a Connect fails with a request
\* error, the action finishes with the session connected, a model count of 4,
\* and the collection holding exactly the four mock models, in order.
C12_OfflineFallback ==
    (fetch_last.op = "connect" /\ fetch_request \in RequestErrors) =>
        /\ fetch_last.result = "FINISHED"
        /\ ids_fetch_server_connected
        /\ ids_fetch_models_count = 4
        /\ Len(ids_fetch_domain_models) = 4
        /\ [i \in 1..4 |-> ids_fetch_domain_models[i].name]
              = << "Brandschutz Hochbau 2024", "Barrierefreiheit DIN 18040",
                   "DB InfraGO Eisenbahnbrücken", "Nachhaltigkeit DGNB" >>

\* A Connect that timed out, after a download of a model the portal had listed.
C12_Witness ==
    /\ fetch_last.op = "connect"
    /\ fetch_request = "Timeout"
    /\ fetch_written.guid = "g1"
    /\ ids_fetch_domain_models = get_mock_domain_models

\* The Download executed: guid and save path were given and a request was made.
DownloadRequested == fetch_last.op = "download" /\ fetch_request # ""

\* C13 as stated: a Download whose portal request fails finishes, having
\* written the mock document to the chosen path.
C13_FallbackAlwaysFinishes ==
    (DownloadRequested /\ fetch_request # "ok") =>
        /\ fetch_last.result = "FINISHED"
        /\ fetch_written.path = fetch_filepath
        /\ fetch_written.content = create_mock_ids_content(fetch_written.name)

\* C13 as amended: when the portal request of a Download fails with a request
\* error, the mock document takes the place of the portal's content: either
\* the action finishes, having written the two-specification mock document
\* for the model to the chosen path with its suffix forced to ".ids", or
\* preparing or writing the file raised and the action is cancelled with a
\* save error.  An unexpected exception or an empty body gives no content,
\* and the action is cancelled.
C13_DownloadFallback ==
    DownloadRequested =>
        /\ fetch_request \in RequestErrors =>
              \/ /\ fetch_last.result = "FINISHED"
                 /\ ids_filepath(fetch_filepath).ok
                 /\ fetch_written.path = ids_filepath(fetch_filepath).path
                 /\ PathSuffix(fetch_written.path) = DotIds
                 /\ fetch_written.content = create_mock_ids_content(fetch_written.name)
                 /\ Len(fetch_written.content.specifications) = 2
              \/ /\ fetch_last.result = "CANCELLED"
                 /\ fetch_last.message = "Fehler beim Speichern"
        /\ fetch_request \in {"UnexpectedError", "ok_empty"} =>
              /\ fetch_last.result = "CANCELLED"
              /\ fetch_last.message = "IDS-Inhalt konnte nicht geladen werden"

\* The portal was unreachable and the mock document was written, the chosen
\* path having another suffix.
C13_Witness ==
    /\ DownloadRequested
    /\ fetch_request = "ConnectionError"
    /\ fetch_last.result = "FINISHED"
    /\ fetch_filepath = <<"a", ".", "x", "m", "l">>
    /\ fetch_written.path = <<"a", ".", "i", "d", "s">>
    /\ fetch_written.content.specifications
          = <<"Grundanforderungen Nachhaltigkeit DGNB", "Türen Nachhaltigkeit DGNB">>

\* C14: the panel starts disconnected with an empty model list; whenever a
\* Download is offered (connected, list not empty) or has been invoked from
\* the panel, some Connect has finished before; the last-download
\* information is shown only after some download has completed.
C14_StageOrdering ==
    /\ fetch_last.op = "register" =>
          /\ ~ids_fetch_server_connected
          /\ ids_fetch_domain_models = <<>>
          /\ ~DownloadOffered
          /\ ~LastDownloadShown
    /\ DownloadOffered => fetch_connected_once
    /\ (fetch_last.op = "download" /\ fetch_last.via = "panel") => fetch_connected_once
    /\ LastDownloadShown => fetch_written # NoDownload

\* The third stage: a download from the panel has finished and is shown.
C14_Witness ==
    /\ fetch_last = FetchCall("download", "panel", "FINISHED", "INFO", "IDS gespeichert")
    /\ DownloadOffered
    /\ LastDownloadShown

\* C15: the three last-download values always describe the most recent
\* download that finished (the last file written); a cancelled download
\* leaves them as they were.
C15_LastDownloadTracking ==
    /\ ids_fetch_last_download = fetch_written.path
    /\ ids_fetch_last_model_name = fetch_written.name
    /\ ids_fetch_last_model_guid = fetch_written.guid
    /\ (fetch_last.op = "download" /\ fetch_last.result = "FINISHED") =>
          ids_fetch_last_download = ids_filepath(fetch_filepath).path

\* A download that was cancelled after an earlier one had finished.
C15_Witness ==
    /\ fetch_last.op = "download"
    /\ fetch_last.result = "CANCELLED"
    /\ fetch_last.message = "Fehler beim Speichern"
    /\ ids_fetch_last_model_name = "Brandschutz Hochbau 2024"
    /\ ids_fetch_last_model_guid = "12345678-1234-1234-1234-123456789abc"
    /\ ids_fetch_last_download = <<"a", ".", "i", "d", "s">>

CleanupOps ==
    {"clean_ids_patch", "safe_remove_ids_fetch", "force_remove_ids_fetch",
     "complete_ids_removal"}

\* C16: Cleanup idempotence.  Each run of clean_ids_patch, of the Fetch
\* removal's safe or force remove and of complete_ids_removal, from any
\* session state and in particular a second run in a row, returns without an
\* error (a class or attribute that is already absent is passed over) and
\* its own verification step reports a clean state.
C16_CleanupIdempotence ==
    session_last.op \in CleanupOps =>
        /\ session_last.exc = ""
        /\ session_last.clean = "clean"

\* C16 witness: force_remove_ids_fetch has just run for the second time in a
\* row, in a session where other scripts had registered their classes.
C16_Witness ==
    /\ session_again
    /\ session_last.op = "force_remove_ids_fetch"
    /\ session_last.clean = "clean"
    /\ bpy_types # {}

\* What ids_patch_panel.py register() creates: the names with its prefixes.
PatchRegistered ==
    [types |-> {t \in bpy_types : StartsWith(t, "IDS_PATCH_")},
     props |-> {p \in scene_props : StartsWith(p, "ids_patch_")}]

\* C17: Patch cleanup verification.  Whenever clean_ids_patch has run and
\* its verify_cleanup returned True, no class and no Scene attribute that the
\* Patch Panel's register() created is still registered.
C17_VerifiedPatchCleanup ==
    (session_last.op = "clean_ids_patch" /\ session_last.clean = "clean") =>
        PatchRegistered.types = {} /\ PatchRegistered.props = {}

\* The Scene attributes each panel script reads and writes.
UsedProps(script) ==
    CASE script = "ids_patch_panel" ->
            {"ids_patch_ifc_file_path", "ids_patch_ifc_file_loaded",
             "ids_patch_ids_file_path", "ids_patch_ids_file_loaded",
             "ids_patch_output_file", "ids_patch_has_output",
             "ids_patch_saved_file_path", "ids_patch_file_saved"}
      [] script = "ids_fetch_panel" ->
            {"ids_fetch_server_selection", "ids_fetch_server_connected",
             "ids_fetch_models_count", "ids_fetch_domain_models",
             "ids_fetch_last_download", "ids_fetch_last_model_name",
             "ids_fetch_last_model_guid"}
      [] script = "ifc2ids_standalone_tool" -> {"ifc2ids_output_path"}
      [] script = "ifcfromids_collaboration_panel" ->
            {"ifcfromids_ids_path", "ifcfromids_output_path", "ifcfromids_use_current",
             "ifcfromids_spec_count", "ifcfromids_summary"}

PanelScripts ==
    {"ids_patch_panel", "ids_fetch_panel", "ifc2ids_standalone_tool",
     "ifcfromids_collaboration_panel"}

\* C18: Session-state lifecycle.  For every panel script, the Scene
\* attributes it uses are all defined once its register() has returned, none
\* of them is defined by merely loading the script, and none remains once
\* its unregister() has returned.
C18_SessionStateLifecycle ==
    \A script \in PanelScripts :
        /\ (session_last = SessionCall(script \o ".register", "", ""))
              => UsedProps(script) \subseteq scene_props
        /\ (session_last = SessionCall(script \o ".import", "", ""))
              => (UsedProps(script) \cap scene_props = {})
        /\ (session_last = SessionCall(script \o ".unregister", "", ""))
              => (UsedProps(script) \cap scene_props = {})

\* The feature family a class or Scene attribute name belongs to.
FamilyOf(name) ==
    IF \/ StartsWith(name, "ids_fetch_")
       \/ name \in {"IDS_DomainModel_Item", "BIM_OT_connect_ids_server",
                    "BIM_OT_download_domain_model_ids", "BIM_PT_ids_fetch"}
    THEN "fetch"
    ELSE IF StartsWith(name, "ids_patch_") \/ StartsWith(name, "IDS_PATCH_")
    THEN "patch"
    ELSE "generator"

\* The feature family an operation belongs to, by the script that holds it.
FamilyOfOp(op) ==
    IF op \in {"ids_fetch_panel.register", "ids_fetch_panel.unregister",
               "safe_remove_ids_fetch", "force_remove_ids_fetch"}
    THEN "fetch"
    ELSE IF op \in {"ids_patch_panel.register", "ids_patch_panel.unregister",
                    "clean_ids_patch"}
    THEN "patch"
    ELSE "generator"

\* C19: State-key ownership.  No operation of one feature family, its
\* cleanup script's main entry point included, adds or removes a class or a
\* Scene attribute owned by another family.
C19_StateKeyOwnership ==
    [][\A name \in (bpy_types \cup bpy_types') \cup (scene_props \cup scene_props') :
           FamilyOf(name) # FamilyOfOp(session_last'.op) =>
               /\ name \in bpy_types <=> name \in bpy_types'
               /\ name \in scene_props <=> name \in scene_props']_vars

MatchResults == <<simple_match_results, simple_has_match_results, simple_matched_entity>>

NothingSelected ==
    simple_selected_index < 0 \/ simple_selected_index >= Len(simple_tree_nodes)

\* The selected node is not an Entity and the backward walk from it yields
\* no Entity name: none precedes it, or the one found has an empty name.
NoParentEntity ==
    /\ ~NothingSelected
    /\ simple_tree_nodes[simple_selected_index + 1].node_type \in {"PropertySet", "Property"}
    /\ LET parent == find_parent_entity(simple_tree_nodes, simple_selected_index - 1)
       IN ~parent.found \/ parent.name = ""

PatchOps == {"patch_ifc", "main_button.patch_ifc", "main_button_active.patch_ifc"}

PatchSceneState ==
    <<ids_patch_ifc_file_path, ids_patch_ifc_file_loaded, ids_patch_ids_file_path,
      ids_patch_ids_file_loaded, ids_patch_output_file, ids_patch_has_output,
      ids_patch_saved_file_path, ids_patch_file_saved>>

\* C21: Patch preconditions.  In each of the three Patch Panel scripts the
\* Patch button is drawn only when an IFC file and a configuration file have
\* been loaded, and a Patch invoked while one of them is not loaded returns
\* CANCELLED with an error report, leaves every Scene attribute as it was,
\* opens no file and writes no file.
C21_PatchPreconditions ==
    [][/\ PatchOffered' =>
             /\ ids_patch_ifc_file_loaded' /\ ids_patch_ifc_file_path' # <<>>
             /\ ids_patch_ids_file_loaded' /\ ids_patch_ids_file_path' # <<>>
       /\ (patch_last'.op \in PatchOps /\ ~PatchOffered) =>
             /\ patch_last'.result = "CANCELLED"
             /\ patch_last'.level = "ERROR"
             /\ UNCHANGED <<PatchSceneState, patch_written>>
             /\ patch_opened' = {}]_patchVars

\* C21 witness: with an IFC file loaded and no configuration loaded, the
\* Patch of the main-button script with the engine was invoked and refused.
C21_Witness ==
    /\ patch_last = OpCall("main_button_active.patch_ifc", "CANCELLED", "ERROR", "")
    /\ ~PatchOffered
    /\ ids_patch_ifc_file_loaded

\* The positions the panel draws, in drawing order.
DrawnNodes == draw_tree_nodes(simple_tree_nodes, 0)

IsDrawn(i) == \E k \in 1..Len(DrawnNodes) : DrawnNodes[k] = i

\* The node that owns position i at the given level: the nearest node of that
\* level before i (0-based positions).
OwnerAt(i, level) ==
    CHOOSE j \in 0..(i - 1) :
        /\ simple_tree_nodes[j + 1].level = level
        /\ \A k \in (j + 1)..(i - 1) : simple_tree_nodes[k + 1].level # level

\* C22: Tree visibility.  When the panel draws the tree, every Entity node
\* is drawn, a PropertySet node is drawn exactly when its Entity is expanded,
\* a Property node is drawn exactly when its PropertySet and that set's
\* Entity are both expanded, and no node is drawn twice.
C22_TreeVisibility ==
    TreeDrawn =>
        /\ \A i \in 0..(Len(simple_tree_nodes) - 1) :
              LET node == simple_tree_nodes[i + 1]
              IN /\ node.node_type = "Entity" => IsDrawn(i)
                 /\ node.node_type = "PropertySet" =>
                       (IsDrawn(i) <=> simple_tree_nodes[OwnerAt(i, 0) + 1].expanded)
                 /\ node.node_type = "Property" =>
                       (IsDrawn(i) <=> /\ simple_tree_nodes[OwnerAt(i, 1) + 1].expanded
                                       /\ simple_tree_nodes[OwnerAt(i, 0) + 1].expanded)
        /\ \A k, l \in 1..Len(DrawnNodes) : DrawnNodes[k] = DrawnNodes[l] => k = l

\* C22 witness: a drawn tree showing a Property under an expanded
\* PropertySet of an expanded Entity, and hiding another Property whose
\* PropertySet is expanded under a collapsed Entity.
C22_Witness ==
    /\ TreeDrawn
    /\ \E i, j \in 0..(Len(simple_tree_nodes) - 1) :
          /\ simple_tree_nodes[i + 1].node_type = "Property"
          /\ simple_tree_nodes[j + 1].node_type = "Property"
          /\ IsDrawn(i)
          /\ ~IsDrawn(j)
          /\ simple_tree_nodes[OwnerAt(j, 1) + 1].expanded
          /\ ~simple_tree_nodes[OwnerAt(j, 0) + 1].expanded

\* The calls that ask the portal for the list of models.
ModelListCalls == {"connect", "main"}

\* C23: Model-list request shape.  Every request sent to the portal's
\* model endpoint itself is a POST whose JSON body is {}, and both the
\* panel's Connect and the connector's main send exactly such a request
\* first.
C23_ModelListRequestShape ==
    /\ \A k \in 1..Len(fetch_http) :
          fetch_http[k].url = <<ModelEndpoint>> =>
              fetch_http[k].method = "POST" /\ fetch_http[k].json = "{}"
    /\ fetch_last.op \in ModelListCalls =>
          /\ Len(fetch_http) >= 1
          /\ fetch_http[1] = Request("POST", <<ModelEndpoint>>, "{}")
          /\ \A k \in 2..Len(fetch_http) : fetch_http[k].url # <<ModelEndpoint>>

\* C23 witness: the connector asked for the model list and then for the IDS
\* of the first model.
C23_Witness ==
    /\ fetch_last.op = "main"
    /\ Len(fetch_http) = 2
    /\ fetch_http[2].method = "GET"
    /\ fetch_connected_once

\* The property set as the configuration applied once to its original name
\* and values leaves it: the first visit that finds the original name
\* configured, applied to the original.
ConfigAppliedOnce(id) ==
    LET all == EngineVisits(engine_variant, json_config, ifc_instances)
        original == engine_original[id]
        hits == {k \in 1..Len(all) :
                    /\ all[k].pset = id
                    /\ original.Name \in DOMAIN json_config[all[k].cfg].properties_values}
    IN IF hits = {} THEN original
       ELSE LET first == CHOOSE k \in hits : \A h \in hits : k <= h
                entry == json_config[all[first].cfg].properties_values[original.Name]
            IN [Name |-> IF entry.replace_name # <<>> THEN entry.replace_name[1]
                         ELSE original.Name,
                HasProperties |->
                    [q \in DOMAIN original.HasProperties |->
                        handle_property_single_value(original.HasProperties[q], entry.props).prop]]

\* C24: At most one application.  When a run of process_ifc_file has
\* written the model, every property set was renamed at most once, every
\* property value was rewritten at most once, and every property set is the
\* configuration applied once to its original name and values.
C24_AppliedAtMostOnce ==
    engine_pc = "done" =>
        \A id \in 1..Len(ifc_property_sets) :
            /\ engine_renames[id] <= 1
            /\ \A q \in 1..Len(engine_writes[id]) : engine_writes[id][q] <= 1
            /\ ifc_property_sets[id] = ConfigAppliedOnce(id)

\* C25: Patch output freshness.  Whenever ids_patch_has_output is set,
\* ids_patch_output_file is the file written by patching the IFC file that
\* ids_patch_ifc_file_path names now.
C25_PatchOutputFreshness ==
    ids_patch_has_output =>
        /\ ids_patch_output_file = output_file_of(ids_patch_ifc_file_path)
        /\ patch_written = <<[src |-> ids_patch_ifc_file_path, dst |-> ids_patch_output_file]>>

\* The visit has returned for a property whose original name is configured
\* with an entry that is no null.
C26_Configured ==
    /\ fix_pc = "done"
    /\ fix_exc = ""
    /\ property_before.Name \in DOMAIN properties_values
    /\ ~properties_values[property_before.Name].null

\* C26: Rename and value replacement are independent.  After a visit that
\* returned, a property whose original name is configured carries the
\* configured replace_name if there is one and its own name otherwise; and
\* whether renamed or not, a single-value property with a literal that
\* equals a configured old value of the entry found under its original name
\* holds the new value, and its literal is unchanged otherwise.
C26_RenameAndReplaceIndependent ==
    C26_Configured =>
        LET entry == properties_values[property_before.Name]
            v == property_before.NominalValue
            replaces == /\ property_before.kind = "IfcPropertySingleValue"
                        /\ v # PyNone
                        /\ entry.replace_values # <<>>
                        /\ C1_Matching(v, entry.replace_values[1]) # {}
        IN /\ property_single_value.Name =
                 IF entry.replace_name # <<>> THEN entry.replace_name[1]
                 ELSE property_before.Name
           /\ IF replaces
              THEN property_single_value.NominalValue =
                       Coerce(v.type, entry.replace_values[1]
                                          [Max(C1_Matching(v, entry.replace_values[1]))][2]).v
              ELSE property_single_value.NominalValue = v

\* C26 witness: LoadBearing = 2, configured with replace_name FireRating and
\* {"2": "3"}, has become FireRating = 3 in one visit.
C26_Witness ==
    /\ C26_Configured
    /\ property_before.Name = "LoadBearing"
    /\ property_before.NominalValue = PyInt(2)
    /\ property_single_value.Name = "FireRating"
    /\ property_single_value.NominalValue = PyInt(3)

\* C27: Model count agreement.  ids_fetch_models_count is the number of
\* entries of ids_fetch_domain_models, and the collection is empty whenever
\* ids_fetch_server_connected is false.
C27_ModelCountAgreement ==
    /\ ids_fetch_models_count = Len(ids_fetch_domain_models)
    /\ ~ids_fetch_server_connected => ids_fetch_domain_models = <<>>

\* C28: Collection type dependency.  Whenever the Scene attribute
\* ids_fetch_domain_models is defined, its item class IDS_DomainModel_Item
\* is registered.
C28_CollectionTypeDependency ==
    "ids_fetch_domain_models" \in scene_props => "IDS_DomainModel_Item" \in bpy_types

\* C28 witness: the removal script has taken the panel and the operators
\* away and kept the properties, and the item class is still registered.
C28_Witness ==
    /\ session_last.op = "remove_only_ui"
    /\ "ids_fetch_domain_models" \in scene_props
    /\ "BIM_PT_ids_fetch" \notin bpy_types
    /\ "IDS_DomainModel_Item" \in bpy_types
    /\ ids_fetch_domain_models # <<>>

\* C29: Selection validity.  simple_selected_index is -1 or a position of
\* simple_tree_nodes.
C29_SelectionValidity ==
    \/ simple_selected_index = -1
    \/ 0 <= simple_selected_index /\ simple_selected_index < Len(simple_tree_nodes)

\* C30: Match result provenance.  Whenever simple_has_match_results is set,
\* simple_matched_entity is the name of a level-0 Entity node of
\* simple_tree_nodes.
C30_MatchResultProvenance ==
    simple_has_match_results =>
        \E i \in 1..Len(simple_tree_nodes) :
            /\ simple_tree_nodes[i].level = 0
            /\ simple_tree_nodes[i].node_type = "Entity"
            /\ simple_tree_nodes[i].name = simple_matched_entity

AnalyzeFinished == match_last.op = "analyze_ids" /\ match_last.result = "FINISHED"

LevelType(level) ==
    CASE level = 0 -> "Entity" [] level = 1 -> "PropertySet" [] level = 2 -> "Property"
      [] OTHER -> ""

\* The tree is a depth-first flattening, all collapsed, nothing selected.
FlattenedTree ==
    /\ simple_tree_nodes # <<>>
    /\ simple_tree_nodes[1].level = 0
    /\ \A i \in 1..Len(simple_tree_nodes) :
          LET node == simple_tree_nodes[i]
          IN /\ node.node_type = LevelType(node.level)
             /\ ~node.expanded
             /\ i > 1 => node.level <= simple_tree_nodes[i - 1].level + 1
             /\ node.has_children <=>
                   (i < Len(simple_tree_nodes) /\ simple_tree_nodes[i + 1].level = node.level + 1)
             /\ node.level > 0 => find_parent_entity(simple_tree_nodes, i - 2).found
    /\ simple_selected_index = -1

ParentError == match_last.message = "Could not determine parent IFC class"

CompleteSpecsOnly ==
    [has_specifications |-> TRUE,
     specifications |-> SelectSeq(ids_doc.specifications,
                                  LAMBDA spec : spec.applicability # Absent
                                                /\ spec.requirements # Absent)]

\* C32: Incomplete specifications.  After parse_ids has returned, the map
\* and the warnings are those of the document without the specifications
\* that lack an applicability or a requirements section, every key of the
\* map belongs to an entity of a complete specification, and a document
\* without a specifications section gives the empty map.
C32_IncompleteSpecificationSkipped ==
    parse_pc = "done" =>
        /\ ids_doc.has_specifications =>
              /\ parse_result = parse_ids(CompleteSpecsOnly).result
              /\ parse_warnings = parse_ids(CompleteSpecsOnly).warnings
        /\ \A k \in 1..Len(parse_result) : parse_result[k].key \in AppliedKeys
        /\ ~ids_doc.has_specifications => parse_result = <<>> /\ parse_warnings = <<>>

\* C32 witness: a specification with a door entity and no requirements
\* section came before a complete wall specification, and the map holds the
\* wall only.
C32_Witness ==
    /\ parse_pc = "done"
    /\ Len(ids_doc.specifications) = 2
    /\ ids_doc.specifications[1].applicability = Present(<<Entity("IFCDOOR", "")>>)
    /\ ids_doc.specifications[1].requirements = Absent
    /\ Len(parse_result) = 1
    /\ parse_result[1].key = "IFCWALL"

\* The specification has been generated (and possibly saved).
SpecificationCreated == recipe_pc \in {"done", "saved", "raised"}

\* The element types observed at least MinTypeCount times.
FrequentTypes == {t \in ElementTypes : seen_types[t] >= MinTypeCount}

\* The property sets used at least MinPsetCount times with a property used
\* at least MinPropCount times.
PromotedPsets ==
    {p \in PsetNames : /\ seen_psets[p] >= MinPsetCount
                       /\ \E n \in RecipePropNames : seen_props[<<p, n>>] >= MinPropCount}

PropertySpecs(p) ==
    {i \in 1..Len(ids_specifications) : ids_specifications[i].name = p \o " Properties"}

\* The property sets with a generated "<PropertySet> Properties" specification.
PromotedNames == {p \in PsetNames : PropertySpecs(p) # {}}

\* C34: at most 5 property-set specifications are generated, each for a set
\* that fewer than 5 sets exceed in usage count; each applies to exactly the
\* element types observed to use the set, and carries between 1 and 3
\* requirements, each for a property that fewer than 3 properties of the set
\* exceed in count.
C34_PromotionCaps ==
    SpecificationCreated =>
        /\ Cardinality(PromotedNames) <= 5
        /\ \A p \in PromotedNames :
              /\ Cardinality(PropertySpecs(p)) = 1
              /\ Cardinality({q \in PsetNames : seen_psets[q] > seen_psets[p]}) < 5
              /\ \A i \in PropertySpecs(p) :
                    LET spec == ids_specifications[i]
                    IN /\ spec.applicability =
                             {t \in ElementTypes : <<p, t>> \in seen_pset_types}
                       /\ Len(spec.requirements) \in 1..3
                       /\ \A r \in 1..Len(spec.requirements) :
                             Cardinality({m \in RecipePropNames :
                                             seen_props[<<p, m>>] >
                                             seen_props[<<p, spec.requirements[r].name>>]}) < 3

\* Six sets used at least 3 times: Pset_D, the most used, has no property
\* seen twice and is discarded; Pset_C, promotable but sixth, is cut off;
\* Pset_WallCommon keeps 3 of its 4 properties; Pset_A also applies to the
\* door type, which was seen once only.
C34_Witness ==
    /\ SpecificationCreated
    /\ seen_types["IfcDoor"] = 1
    /\ seen_psets["Pset_D"] = 4
    /\ seen_props[<<"Pset_D", "LoadBearing">>] = 1
    /\ \A p \in PsetNames \ {"Pset_D"} : seen_psets[p] = 3
    /\ seen_props[<<"Pset_C", "LoadBearing">>] = 3
    /\ PromotedNames = {"Pset_WallCommon", "Pset_Custom", "Pset_A", "Pset_B"}
    /\ seen_props[<<"Pset_WallCommon", "Reference">>] = 3
    /\ \A i \in PropertySpecs("Pset_WallCommon") : Len(ids_specifications[i].requirements) = 3
    /\ \A i \in PropertySpecs("Pset_A") :
          ids_specifications[i].applicability = {"IfcWall", "IfcDoor"}
    /\ "IfcDoor Requirements" \notin SpecificationNames

\* The requirements, over all generated specifications, that demand the
\* "Representation" attribute.
RepresentationRequirements ==
    UNION {{ids_specifications[i].requirements[r] :
               r \in {k \in 1..Len(ids_specifications[i].requirements) :
                         /\ ids_specifications[i].requirements[k].facet = "Attribute"
                         /\ ids_specifications[i].requirements[k].name = "Representation"}} :
           i \in 1..Len(ids_specifications)}

\* The specification generated for the element type t demands a required
\* "Representation" attribute.
HasRepresentationRequirement(t) ==
    \E i \in 1..Len(ids_specifications) :
        /\ ids_specifications[i].name = t \o " Requirements"
        /\ \E r \in 1..Len(ids_specifications[i].requirements) :
              ids_specifications[i].requirements[r] =
                 Requirement("Attribute", "Representation", "", "required")

\* C35: with geometry inclusion enabled, the specification of the wall type
\* found at least twice demands a required "Representation" attribute; with
\* it disabled no specification demands one.
C35_GeometryRequirement ==
    SpecificationCreated =>
        /\ (include_geometry /\ seen_types["IfcWall"] >= 2) => HasRepresentationRequirement("IfcWall")
        /\ ~include_geometry => RepresentationRequirements = {}

\* stats[key]['count'], 0 when the dict has no such key.
StatCount(stats, field, key) ==
    IF IndexOf(stats, field, key) = 0 THEN 0 ELSE stats[IndexOf(stats, field, key)].count

\* C36: whatever analyses raised, the analysis goes on: every product is
\* counted once under its type, and every property set, material and
\* classification of every element whose own analysis of that kind did not
\* raise is counted, also for an element another analysis of which raised.
C36_FailureIsolation ==
    /\ recipe_failed \cap Analyses # {} => recipe_pc = "analyze"
    /\ \A t \in ElementTypes : StatCount(element_stats, "type", t) = seen_types[t]
    /\ total_elements(element_stats) = seen_types["IfcWall"] + seen_types["IfcDoor"]
    /\ \A p \in PsetNames : StatCount(property_stats, "name", p) = seen_psets[p]
    /\ StatCount(material_stats, "name", "Concrete") = seen_associations["materials"]
    /\ StatCount(classification_stats, "name", "Uniclass") = seen_associations["classifications"]

\* The second of two elements: its property analysis raised, and it is
\* counted together with its material and its classification.
C36_Witness ==
    /\ recipe_pc = "analyze"
    /\ recipe_failed = {"properties"}
    /\ total_elements(element_stats) = 2
    /\ seen_psets["Pset_WallCommon"] = 1
    /\ StatCount(material_stats, "name", "Concrete") = 2
    /\ StatCount(classification_stats, "name", "Uniclass") = 2

\* The files the run left behind, by content.
FilesWritten(content) == {f.path : f \in {g \in recipe_files : g.content = content}}

\* C37: a run that wrote the IDS file completed without raising and wrote
\* the JSON summary beside it, under the output file's name with its last
\* suffix replaced by ".json", unless writing the summary failed, in which
\* case the run completed all the same; a run in which writing the IDS file
\* failed raised and wrote no file.
C37_SummaryPersistence ==
    /\ FilesWritten("ids") # {} =>
          /\ recipe_pc = "saved"
          /\ FilesWritten("ids") = {output_path}
          /\ analysis_summary # <<>>
          /\ FilesWritten("summary") =
                IF "summary" \in recipe_failed THEN {} ELSE {with_suffix(output_path, ".json")}
    /\ "summary" \in recipe_failed => recipe_pc = "saved" /\ FilesWritten("ids") # {}
    /\ "ids" \in recipe_failed <=> recipe_pc = "raised"
    /\ recipe_pc = "raised" => recipe_files = {}
    /\ recipe_pc = "saved" => FilesWritten("ids") # {}

\* A saved run whose summary was written beside a file name with two
\* suffixes.
C37_Witness ==
    /\ recipe_pc = "saved"
    /\ output_path = <<"model", ".v2", ".ids">>
    /\ recipe_files = {[path |-> <<"model", ".v2", ".ids">>, content |-> "ids"],
                       [path |-> <<"model", ".v2", ".json">>, content |-> "summary"]}

\* The include_geometry value v counts as true: the boolean true, or a
\* string that reads "true" in any letter case.
ReadsTrue(v) ==
    \/ v = BoolArgument(TRUE)
    \/ v.type = "str" /\ lower(v.val) = <<"t", "r", "u", "e">>

\* C38: after either invocation form, the output path, the specification
\* name and the geometry flag are the supplied arguments, or "output.ids",
\* "Generated from IFC" and false when omitted, and the geometry flag is true
\* exactly for a supplied value that is the boolean true or reads "true" in
\* any letter case.
C38_InvocationForms ==
    recipe_call # "none" =>
        /\ output_path = IF Len(recipe_arguments) > 0 THEN recipe_arguments[1].val
                         ELSE <<"output", ".ids">>
        /\ specification_name = IF Len(recipe_arguments) > 2 THEN recipe_arguments[3].val
                                ELSE <<"Generated from IFC">>
        /\ include_geometry = (Len(recipe_arguments) > 1 /\ ReadsTrue(recipe_arguments[2]))

\* The last call was a Generate Template run that finished.
TemplateGenerated ==
    template_last.op = "generate_ifc_template" /\ template_last.result = "FINISHED"

\* C39: a finished Generate Template run that created a new file while the
\* user had typed no output path wrote the template to the loaded IDS file's
\* path with its suffix replaced by ".ifc"; a run that augmented the current
\* model wrote no file.
C39_TemplateOutputPath ==
    TemplateGenerated =>
        /\ (template_last.new_file /\ ~template_output_by_user) =>
              template_last.written = {with_suffix(ifcfromids_ids_path, ".ifc")}
        /\ ~template_last.new_file => template_last.written = {}

\* The material a material requirement is to give the placeholder element:
\* its explicit value, "Template Material" when it names none, nothing for "*".
RequiredMaterial(requirement) ==
    IF requirement.class # "Material" \/ requirement.value = "*" THEN <<>>
    ELSE IF requirement.value = "" THEN <<"Template Material">>
    ELSE <<requirement.value>>

RECURSIVE RequiredMaterials(_)
RequiredMaterials(requirements) ==
    IF requirements = <<>> THEN <<>>
    ELSE RequiredMaterial(Head(requirements)) \o RequiredMaterials(Tail(requirements))

\* C40: the materials a Generate Template run creates and assigns to the
\* placeholder element are, in order, one per material requirement: of the
\* explicit name, of the name "Template Material" when the requirement has no
\* value, and none for the value "*".
C40_TemplateMaterials ==
    (/\ TemplateGenerated
     /\ template_last.document # <<>>
     /\ template_last.elements = 1) =>
        template_last.materials = RequiredMaterials(template_last.document[1].requirements)
====
